---- MODULE Spec2Model ----
(***************************************************************************)
(* DeFi position explorer: the chat request pipeline.                      *)
(*                                                                         *)
(*   intent parser   parseUserQuery / regexParse      (lib/agent)          *)
(*   query compiler  build*Query, queryAllium         (lib/allium)         *)
(*   request handler POST                             (api/chat/route)     *)
(*                                                                         *)
(* JavaScript strings are sequences of pieces.  Text the code analyses     *)
(* (the utterance, addresses, dates, trigger terms) is held one character  *)
(* per piece; a literal the code only passes around or compares whole (an  *)
(* intent kind, a message) is held as the pieces it is written with.       *)
(***************************************************************************)
EXTENDS Integers, Sequences, FiniteSets, TLC

\* ------------------------------------------------------------------ bounds

\* Fragments per utterance handed to the deterministic parser.
MaxFrags == 4
\* Fragments per message posted to the request handler.
MaxReqFrags == 2
\* Rows per row set handed to a formatter.
MaxRows == 3

\* ------------------------------------------------------------- characters

UpperAlpha == <<"A", "B", "C", "D", "E", "F", "G", "H", "I", "J", "K", "L", "M",
                "N", "O", "P", "Q", "R", "S", "T", "U", "V", "W", "X", "Y", "Z">>
LowerAlpha == <<"a", "b", "c", "d", "e", "f", "g", "h", "i", "j", "k", "l", "m",
                "n", "o", "p", "q", "r", "s", "t", "u", "v", "w", "x", "y", "z">>

\* \d of a JavaScript regular expression without the u flag: [0-9].
Digits == {"0", "1", "2", "3", "4", "5", "6", "7", "8", "9"}

\* The character class [1-9A-HJ-NP-Za-km-z].
Base58 == (Digits \ {"0"})
          \cup ({UpperAlpha[i] : i \in 1..26} \ {"I", "O"})
          \cup ({LowerAlpha[i] : i \in 1..26} \ {"l"})

\* {32,44}: the quantifier of the address pattern.
MinAddrLen == 32
MaxAddrLen == 44
\* The length of a match of \d{4}-\d{2}-\d{2}.
DateLen == 10

\* String.prototype.toLowerCase on the characters the model uses.
toLowerCase(s) ==
  [i \in 1..Len(s) |->
     IF \E k \in 1..26 : UpperAlpha[k] = s[i]
       THEN LowerAlpha[CHOOSE k \in 1..26 : UpperAlpha[k] = s[i]]
       ELSE s[i]]

\* String.prototype.includes.
includes(s, t) ==
  \E i \in 0..(Len(s) - Len(t)) :
     \A k \in 1..Len(t) : s[i + k] = t[k]

\* s.slice(from - 1, from - 1 + n) for 1-based from.
Piece(s, from, n) == SubSeq(s, from, from + n - 1)

RECURSIVE Concat(_)
Concat(ss) == IF ss = <<>> THEN <<>> ELSE Head(ss) \o Concat(Tail(ss))

SeqsUpTo(S, n) == UNION {[1..k -> S] : k \in 0..n}

Min(S) == CHOOSE x \in S : \A y \in S : x <= y
\* ------------------------------------------------------ JavaScript values

Undefined == [t |-> "undefined"]
Null      == [t |-> "null"]
Str(s)    == [t |-> "str", v |-> s]
\* A number, held by its decimal text.
Num(s)    == [t |-> "num", v |-> s]
\* A literal of the code that is only passed around or compared whole.
Lit(x)    == Str(<<x>>)

\* ToBoolean: undefined, null, "" and 0 are falsy.
Truthy(x) ==
  CASE x.t = "undefined" -> FALSE
    [] x.t = "null"      -> FALSE
    [] x.t = "str"       -> x.v # <<>>
    [] x.t = "num"       -> x.v # <<"0">>
    [] OTHER             -> TRUE

\* interface ParsedQuery: an absent field reads as undefined.
BlankQuery ==
  [type |-> Undefined, address |-> Undefined, date |-> Undefined,
   start_date |-> Undefined, end_date |-> Undefined, date1 |-> Undefined,
   date2 |-> Undefined, protocol |-> Undefined, message |-> Undefined]

\* ----------------------------------------------- deterministic parser

TermHelp       == <<"h", "e", "l", "p">>
TermWhatCanYou == <<"w", "h", "a", "t", " ", "c", "a", "n", " ", "y", "o", "u">>
TermHi         == <<"h", "i">>
TermHello      == <<"h", "e", "l", "l", "o">>
TermCompare    == <<"c", "o", "m", "p", "a", "r", "e">>
TermVs         == <<"v", "s">>
TermVersus     == <<"v", "e", "r", "s", "u", "s">>
TermFrom       == <<"f", "r", "o", "m">>
TermHistory    == <<"h", "i", "s", "t", "o", "r", "y">>
TermRange      == <<"r", "a", "n", "g", "e">>
TermBetween    == <<"b", "e", "t", "w", "e", "e", "n">>

MsgNeedAddress ==
  <<"I need a Solana wallet address. Try: ",
    "'Show me positions for `<wallet_address>` on 2025-12-31'">>
MsgNeedDate ==
  <<"I found a wallet address but need a date. Try: ",
    "'Show me positions for `<wallet>` on 2025-12-31'">>

\* How many characters from position i on are in class C, counted up to cap.
ClassRun(s, i, C, cap) ==
  LET stop == {k \in 0..(cap - 1) : i + k > Len(s) \/ s[i + k] \notin C}
  IN  IF stop = {} THEN cap ELSE Min(stop)

\* msg.match(/[1-9A-HJ-NP-Za-km-z]{lo,hi}/): the leftmost position where lo
\* characters of the class follow, extended greedily to at most hi; null
\* (here Undefined) when there is none.
MatchBase58(msg, lo, hi) ==
  LET starts == {i \in 1..Len(msg) : ClassRun(msg, i, Base58, lo) = lo}
  IN  IF starts = {} THEN Undefined
      ELSE LET i == Min(starts)
           IN  Str(Piece(msg, i, ClassRun(msg, i, Base58, hi)))

addrMatch_shorter(msg) == MatchBase58(msg, MinAddrLen - 1, MaxAddrLen)
\* const address = addrMatch ? addrMatch[0] : undefined
addrMatch(msg) == MatchBase58(msg, MinAddrLen, MaxAddrLen)

\* \d{4}-\d{2}-\d{2} matches at position i.
DateAt(s, i) ==
  /\ i + DateLen - 1 <= Len(s)
  /\ \A k \in {0, 1, 2, 3, 5, 6, 8, 9} : s[i + k] \in Digits
  /\ s[i + 4] = "-"
  /\ s[i + 7] = "-"

\* The g flag: each match is the leftmost one at or after the end of the last.
RECURSIVE DateScan(_, _)
DateScan(s, from) ==
  LET at == {i \in from..Len(s) : DateAt(s, i)}
  IN  IF at = {} THEN <<>>
      ELSE <<Piece(s, Min(at), DateLen)>> \o DateScan(s, Min(at) + DateLen)

\* msg.match(/\d{4}-\d{2}-\d{2}/g) || []
dateMatches(msg) == DateScan(msg, 1)

isHelp_caseSensitive(msg, lower) ==
  \/ includes(msg, TermHelp)
  \/ includes(msg, TermWhatCanYou)
  \/ msg = TermHi
  \/ msg = TermHello
isHelp(msg, lower) ==
  \/ includes(lower, TermHelp)
  \/ includes(lower, TermWhatCanYou)
  \/ lower = TermHi
  \/ lower = TermHello

isComparison(lower, dates) ==
  /\ \/ includes(lower, TermCompare)
     \/ includes(lower, TermVs)
     \/ includes(lower, TermVersus)
  /\ Len(dates) >= 2

isRange(lower, dates) ==
  /\ \/ includes(lower, TermFrom)
     \/ includes(lower, TermHistory)
     \/ includes(lower, TermRange)
     \/ includes(lower, TermBetween)
  /\ Len(dates) >= 2

isSnapshot_two(dates) == Len(dates) >= 2
isSnapshot(dates) == Len(dates) >= 1

\* Character order of two dates in YYYY-MM-DD form (the order sort() gives).
DigitSeq == <<"0", "1", "2", "3", "4", "5", "6", "7", "8", "9">>
CharRank(c) == IF c = "-" THEN 0 ELSE CHOOSE k \in 1..10 : DigitSeq[k] = c
DateBefore(a, b) ==
  \E i \in 1..DateLen :
     /\ \A k \in 1..(i - 1) : a[k] = b[k]
     /\ CharRank(a[i]) < CharRank(b[i])

comparisonIntent_sorted(address, dates) ==
  [BlankQuery EXCEPT
     !.type = Lit("comparison"),
     !.address = address,
     !.date1 = Str(IF DateBefore(dates[2], dates[1]) THEN dates[2] ELSE dates[1]),
     !.date2 = Str(IF DateBefore(dates[2], dates[1]) THEN dates[1] ELSE dates[2])]
\* { type: "comparison", address, date1: dateMatches[0], date2: dateMatches[1] }
comparisonIntent(address, dates) ==
  [BlankQuery EXCEPT
     !.type = Lit("comparison"),
     !.address = address,
     !.date1 = Str(dates[1]),
     !.date2 = Str(dates[2])]

rangeIntent_reversed(address, dates) ==
  [BlankQuery EXCEPT
     !.type = Lit("range"),
     !.address = address,
     !.start_date = Str(dates[2]),
     !.end_date = Str(dates[1])]
\* { type: "range", address, start_date: dateMatches[0], end_date: dateMatches[1] }
rangeIntent(address, dates) ==
  [BlankQuery EXCEPT
     !.type = Lit("range"),
     !.address = address,
     !.start_date = Str(dates[1]),
     !.end_date = Str(dates[2])]

snapshotIntent_kamino(address, dates) ==
  [BlankQuery EXCEPT
     !.type = Lit("snapshot"),
     !.address = address,
     !.date = Str(dates[1]),
     !.protocol = Str(<<"k", "a", "m", "i", "n", "o">>)]
\* { type: "snapshot", address, date: dateMatches[0] }
snapshotIntent(address, dates) ==
  [BlankQuery EXCEPT
     !.type = Lit("snapshot"),
     !.address = address,
     !.date = Str(dates[1])]

errorIntent(message) ==
  [BlankQuery EXCEPT !.type = Lit("error"), !.message = Str(message)]

helpIntent == [BlankQuery EXCEPT !.type = Lit("help")]

\* The fallback parser: the checks in the order the code makes them.
regexParse(msg) ==
  LET lower   == toLowerCase(msg)
      address == addrMatch(msg)
      dates   == dateMatches(msg)
  IN  IF isHelp(msg, lower) THEN helpIntent
      ELSE IF ~Truthy(address) THEN errorIntent(MsgNeedAddress)
      ELSE IF isComparison(lower, dates) THEN comparisonIntent(address, dates)
      ELSE IF isRange(lower, dates) THEN rangeIntent(address, dates)
      ELSE IF isSnapshot(dates) THEN snapshotIntent(address, dates)
      ELSE errorIntent(MsgNeedDate)

\* ------------------------------------------------------------- utterances

Address44 ==
  <<"G", "Q", "R", "z", "Z", "V", "L", "k", "m", "e", "h", "J", "M", "1", "f",
    "n", "M", "j", "8", "e", "8", "D", "d", "h", "x", "M", "P", "m", "Q", "B",
    "E", "G", "i", "S", "n", "S", "W", "e", "V", "e", "J", "v", "C", "c">>
Address32 == Piece(Address44, 1, MinAddrLen)
\* One character short of an address.
Run31 == [i \in 1..(MinAddrLen - 1) |-> "7"]

Date1231 == <<"2", "0", "2", "5", "-", "1", "2", "-", "3", "1">>
Date0930 == <<"2", "0", "2", "5", "-", "0", "9", "-", "3", "0">>
Date1001 == <<"2", "0", "2", "5", "-", "1", "0", "-", "0", "1">>

PoolA ==
  { <<"H", "e", "l", "p">>,
    TermHi,
    <<" ">> \o TermCompare \o <<" ">>,
    Address44,
    Date1231,
    <<" ">> \o TermFrom \o <<" ">> \o Date0930 \o <<" ">>,
    <<" ">> }
PoolB ==
  { <<"W", "h", "a", "t", " ", "C", "a", "n", " ", "Y", "o", "u">>,
    <<"H", "e", "l", "l", "o">>,
    <<"V", "S">>,
    Address32,
    Run31,
    <<" ">> \o Date1001,
    <<" ">> \o Date1231 }
PoolC ==
  { TermVersus,
    <<" ">> \o TermHistory,
    <<" ">> \o TermRange \o <<" ">>,
    TermBetween \o <<" ">>,
    Address32,
    <<" ">> \o Date1231,
    <<" ">> \o Date0930 }

\* The utterances the parser is tried on: up to n fragments of one pool.
UtterancesOf(Pool, n) == {Concat(fs) : fs \in SeqsUpTo(Pool, n)}
Utterances == UtterancesOf(PoolA, MaxFrags) \cup UtterancesOf(PoolB, MaxFrags)
              \cup UtterancesOf(PoolC, MaxFrags)
\* ------------------------------------------------- thrown and returned

\* An Error instance: what `throw new Error(m)` or a failing built-in throws.
Error(name, message) == [name |-> name, message |-> message]
Thrown(e)   == [threw |-> TRUE, error |-> e]
Returned(v) == [threw |-> FALSE, value |-> v]

\* `${x}` in a template literal, for the values the model holds.
Interpolate(x) ==
  CASE x.t = "str"       -> x.v
    [] x.t = "num"       -> x.v
    [] x.t = "null"      -> <<"null">>
    [] OTHER             -> <<"undefined">>

\* ----------------------------------------------------- query compiler

SelectClause ==
  <<"SELECT date, address, project, protocol, symbol, balance, usd_balance, ",
    "usd_exchange_rate, lending_id, mint, token_name ",
    "FROM solana.lending.position_holdings_daily WHERE ">>

\* conditions.join(" AND ")
RECURSIVE Join(_)
Join(conditions) ==
  IF conditions = <<>> THEN <<>>
  ELSE IF Len(conditions) = 1 THEN Head(conditions)
  ELSE Head(conditions) \o <<" AND ">> \o Join(Tail(conditions))

WithProtocol_asGiven(conditions, protocol, tailClause) ==
  IF ~Truthy(protocol)
    THEN Returned(SelectClause \o Join(conditions) \o tailClause)
  ELSE IF protocol.t # "str"
    THEN Thrown(Error("TypeError", <<"protocol.toLowerCase is not a function">>))
  ELSE Returned(SelectClause
                \o Join(Append(conditions, <<"project = '">> \o protocol.v \o <<"'">>))
                \o tailClause)
\* if (protocol) conditions.push(`project = '${protocol.toLowerCase()}'`):
\* a truthy protocol that is no string has no toLowerCase.
WithProtocol(conditions, protocol, tailClause) ==
  IF ~Truthy(protocol)
    THEN Returned(SelectClause \o Join(conditions) \o tailClause)
  ELSE IF protocol.t # "str"
    THEN Thrown(Error("TypeError", <<"protocol.toLowerCase is not a function">>))
  ELSE Returned(SelectClause
                \o Join(Append(conditions,
                     <<"project = '">> \o toLowerCase(protocol.v) \o <<"'">>))
                \o tailClause)


buildPositionQuery(address, date, protocol) ==
  WithProtocol(<< <<"address = '">> \o Interpolate(address) \o <<"'">>,
                  <<"date = '">> \o Interpolate(date) \o <<"'">>,
                  <<"balance > 0">> >>,
               protocol,
               <<" ORDER BY usd_balance DESC", " LIMIT 50">>)

buildPositionRangeQuery(address, startDate, endDate, protocol) ==
  WithProtocol(<< <<"address = '">> \o Interpolate(address) \o <<"'">>,
                  <<"date >= '">> \o Interpolate(startDate) \o <<"'">>,
                  <<"date <= '">> \o Interpolate(endDate) \o <<"'">>,
                  <<"balance > 0">> >>,
               protocol,
               <<" ORDER BY date ASC, usd_balance DESC", " LIMIT 500">>)

buildComparisonQuery(address, date1, date2, protocol) ==
  WithProtocol(<< <<"address = '">> \o Interpolate(address) \o <<"'">>,
                  <<"date IN ('">> \o Interpolate(date1) \o <<"', '">>
                     \o Interpolate(date2) \o <<"')">>,
                  <<"balance > 0">> >>,
               protocol,
               <<" ORDER BY date ASC, usd_balance DESC", " LIMIT 100">>)

\* ------------------------------------------------ NL service and its reply

\* A reply text is a sequence of tokens: white space, prose, or the text of
\* one JSON value.
WS == [tok |-> "ws"]
Prose == [tok |-> "prose"]
Json(v) == [tok |-> "json", value |-> v]

\* String.prototype.trim: white space at both ends goes.
RECURSIVE TrimLeft(_)
TrimLeft(text) ==
  IF text # <<>> /\ Head(text) = WS THEN TrimLeft(Tail(text)) ELSE text
Reverse(text) == [i \in 1..Len(text) |-> text[Len(text) + 1 - i]]
trim(text) == Reverse(TrimLeft(Reverse(TrimLeft(text))))

\* JSON.parse: the text must be one JSON value, white space around it allowed.
JSONparse(text) ==
  LET values == SelectSeq(text, LAMBDA tk : tk # WS)
  IN  IF Len(values) = 1 /\ values[1].tok = "json"
        THEN Returned(values[1].value)
        ELSE Thrown(Error("SyntaxError", <<"Unexpected token in JSON">>))

\* A JSON array (its elements play no part).
Arr == [t |-> "arr"]

\* A value is an object of the ParsedQuery shape, or a tagged non-object.
IsObject(x) == "type" \in DOMAIN x

\* x.type as the handler reads it: a TypeError on null (and undefined),
\* undefined on any other non-object.
TypeOf(x) == IF IsObject(x) THEN x.type ELSE Undefined

\* The try block of parseUserQuery, lines 644-658, given how the call ended.
tryClaude(outcome) ==
  IF outcome.kind = "reject"
    THEN Thrown(Error("APIError", <<"NL service request failed">>))
  ELSE IF outcome.content = <<>>
    THEN Thrown(Error("TypeError", <<"Cannot read properties of undefined (reading 'type')">>))
  ELSE LET text == IF outcome.content[1].type = "text"
                     THEN outcome.content[1].text ELSE <<>>
       IN  JSONparse(trim(text))

parseUserQuery_rethrow(userMessage, apiKey, outcome) ==
  IF apiKey THEN tryClaude(outcome) ELSE Returned(regexParse(userMessage))
\* parseUserQuery: without the key the regex parser; with it the parsed reply,
\* or on any throw inside the try block a console.warn and the regex parser.
parseUserQuery(userMessage, apiKey, outcome) ==
  IF apiKey /\ ~tryClaude(outcome).threw
    THEN tryClaude(outcome)
    ELSE Returned(regexParse(userMessage))

\* -------------------------------------------------- query execution

\* What the fetch of queryAllium ended with.  net: "reject" (no response) or
\* "http"; ok: res.ok; status, text: of a non-OK response; dataLine: the body
\* has a line starting "data: "; rpc: what that line's JSON parses to
\* (InvalidJson when it does not parse).
Fetched(ok, dataLine, rpc) ==
  [net |-> "http", ok |-> ok, status |-> "503", text |-> "upstream unavailable",
   dataLine |-> dataLine, rpc |-> rpc]
InvalidJson == [t |-> "invalid"]
\* A row set: a JSON array of rows.
Rows(rows) == [t |-> "arr", v |-> rows]
FetchRejected ==
  [net |-> "reject", ok |-> FALSE, status |-> "", text |-> "",
   dataLine |-> FALSE, rpc |-> Null]

\* A JSON-RPC response: error (its message), result.structuredContent (an
\* object or undefined), result.content[0].text (a string or undefined).
Rpc(error, structured, text) ==
  [error |-> error, structuredContent |-> structured, textContent |-> text]

\* queryAllium from line 50 on, given how the fetch ended.
queryAlliumFetched(outcome) ==
  IF outcome.net = "reject"
    THEN Thrown(Error("TypeError", <<"fetch failed">>))
  ELSE IF ~outcome.ok
    THEN Thrown(Error("Error",
           <<"Allium API error (", outcome.status, "): ", outcome.text>>))
  ELSE IF ~outcome.dataLine
    THEN Thrown(Error("Error", <<"No data in Allium response">>))
  ELSE IF outcome.rpc = InvalidJson
    THEN Thrown(Error("SyntaxError", <<"Unexpected token in JSON">>))
  ELSE IF outcome.rpc = Null
    THEN Thrown(Error("TypeError", <<"Cannot read properties of null (reading 'error')">>))
  ELSE IF Truthy(outcome.rpc.error)
    THEN Thrown(Error("Error", <<"Allium query error: ">> \o outcome.rpc.error.v))
  ELSE IF outcome.rpc.structuredContent # Undefined
    THEN Returned(outcome.rpc.structuredContent)
  ELSE IF Truthy(outcome.rpc.textContent)
    THEN JSONparse(outcome.rpc.textContent.v)
  ELSE Thrown(Error("Error", <<"No result data in Allium response">>))

\* queryAllium, lines 27-30: without the key it throws before any fetch.
MissingAlliumKey == Error("Error", <<"ALLIUM_API_KEY is not set">>)

\* ------------------------------------------------------ result formatter

\* Numbers of a row are whole numbers.  The report is one string: a sequence
\* of pieces in which every line ends with the piece "\n" and every cell
\* border of a table is the piece "|".

Abs(n) == IF n < 0 THEN 0 - n ELSE n
RECURSIVE Pow10(_)
Pow10(d) == IF d = 0 THEN 1 ELSE 10 * Pow10(d - 1)
\* a / b for b > 0, to the nearest whole number, a half going up.
RoundDiv(a, b) == (2 * a + b) \div (2 * b)

\* The decimal digits of a natural number, and of its last d digits.
RECURSIVE DecimalDigits(_)
DecimalDigits(n) ==
  IF n < 10 THEN <<DigitSeq[n + 1]>>
  ELSE Append(DecimalDigits(n \div 10), DigitSeq[(n % 10) + 1])
RECURSIVE LastDigits(_, _)
LastDigits(n, d) ==
  IF d = 0 THEN <<>> ELSE Append(LastDigits(n \div 10, d - 1), DigitSeq[(n % 10) + 1])

\* (num / den).toFixed(digits), den a power of ten: the magnitude rounded to
\* that many decimals, a half going up, after the sign of the number.
toFixed(num, den, digits) ==
  LET m == IF Pow10(digits) % den = 0
             THEN Abs(num) * (Pow10(digits) \div den)
           ELSE IF den % Pow10(digits) = 0
             THEN RoundDiv(Abs(num), den \div Pow10(digits))
           ELSE RoundDiv(Abs(num) * Pow10(digits), den)
  IN  (IF num < 0 THEN <<"-">> ELSE <<>>)
      \o DecimalDigits(m \div Pow10(digits)) \o <<".">> \o LastDigits(m, digits)

percentFixed_truncated(change, base) ==
  LET m == (Abs(change) * 10000) \div base
  IN  (IF change < 0 THEN <<"-">> ELSE <<>>)
      \o DecimalDigits(m \div 100) \o <<".">> \o LastDigits(m, 2)
\* ((change / base) * 100).toFixed(2)
percentFixed(change, base) ==
  LET m == RoundDiv(Abs(change) * 10000, base)
  IN  (IF change < 0 THEN <<"-">> ELSE <<>>)
      \o DecimalDigits(m \div 100) \o <<".">> \o LastDigits(m, 2)

Million == 1000000
Thousand == 1000

formatUSD(value) ==
  IF value >= Million THEN <<"$">> \o toFixed(value, Million, 2) \o <<"M">>
  ELSE IF value >= Thousand THEN <<"$">> \o toFixed(value, Thousand, 2) \o <<"K">>
  ELSE <<"$">> \o toFixed(value, 1, 2)

formatBalance(value) ==
  IF value >= Million THEN toFixed(value, Million, 4) \o <<"M">>
  ELSE IF value >= Thousand THEN toFixed(value, Thousand, 4) \o <<"K">>
  ELSE toFixed(value, 1, 6)

\* dateStr.split("T")[0]
formatDate(dateStr) ==
  LET at == {i \in 1..Len(dateStr) : dateStr[i] = "T"}
  IN  IF at = {} THEN dateStr ELSE SubSeq(dateStr, 1, Min(at) - 1)

\* `${address.slice(0, 4)}...${address.slice(-4)}`
SliceLen == 4
shortAddr(address) ==
  SubSeq(address, 1, IF Len(address) < SliceLen THEN Len(address) ELSE SliceLen)
  \o <<"...">>
  \o SubSeq(address,
            IF Len(address) < SliceLen THEN 1 ELSE Len(address) - SliceLen + 1,
            Len(address))

\* One line of a markdown table: | cell | cell | ... |\n
RECURSIVE TableCells(_)
TableCells(cells) ==
  IF cells = <<>> THEN <<>>
  ELSE <<" ">> \o Head(cells) \o <<" ", "|">> \o TableCells(Tail(cells))
TableLine(cells) == <<"|">> \o TableCells(cells) \o <<"\n">>
\* The line under the header: |----|----|\n
RECURSIVE RuleCells(_)
RuleCells(widths) ==
  IF widths = <<>> THEN <<>> ELSE <<Head(widths), "|">> \o RuleCells(Tail(widths))
RuleLine(widths) == <<"|">> \o RuleCells(widths) \o <<"\n">>

\* The grave accent (U+0060) of markdown code, which a string here cannot hold.
Tick == "[U+0060]"

DataSource ==
  <<"\n", "_Data source: Allium ", Tick, "solana.lending.position_holdings_daily", Tick, "_">>

SumUSD_first(rows) == IF rows = <<>> THEN 0 ELSE Head(rows).usd_balance
\* rows.reduce((sum, r) => sum + r.usd_balance, 0)
RECURSIVE SumUSD(_)
SumUSD(rows) == IF rows = <<>> THEN 0 ELSE Head(rows).usd_balance + SumUSD(Tail(rows))

NoPositions ==
  <<"No positions found for this wallet on the specified date. The wallet may not have had any active Kamino lending positions, or the date may be outside the available data range (March 2025 onwards).">>

positionLine(row) ==
  TableLine(<< <<row.symbol>>,
               <<row.project, " (", row.protocol, ")">>,
               formatBalance(row.balance),
               formatUSD(row.usd_balance),
               <<"$">> \o toFixed(row.usd_exchange_rate, 1, 4) >>)

formatPositionTable(rows) ==
  IF Len(rows) = 0 THEN NoPositions
  ELSE <<"### Lending Positions for ", Tick>> \o shortAddr(rows[1].address)
       \o <<Tick, " on ">> \o formatDate(rows[1].date) \o <<"\n", "\n">>
       \o TableLine(<< <<"Token">>, <<"Protocol">>, <<"Balance">>, <<"USD Value">>,
                       <<"Price">> >>)
       \o RuleLine(<<"-------", "----------", "---------", "-----------", "-------">>)
       \o Concat([i \in 1..Len(rows) |-> positionLine(rows[i])])
       \o <<"\n", "**Total Portfolio Value: ">> \o formatUSD(SumUSD(rows)) \o <<"**", "\n">>
       \o DataSource

\* The elements of a sequence, each once, in the order they first appear:
\* [...new Set(seq)], and the keys of a Map in insertion order.
RECURSIVE Unique(_)
Unique(seq) ==
  IF seq = <<>> THEN <<>>
  ELSE LET front == Unique(SubSeq(seq, 1, Len(seq) - 1))
           last  == seq[Len(seq)]
       IN  IF \E i \in 1..Len(front) : front[i] = last THEN front
           ELSE Append(front, last)

\* Array.prototype.sort() on dates in YYYY-MM-DD form: by character order.
insertionOrder(dates) == dates
RECURSIVE sort(_)
sort(dates) ==
  IF dates = <<>> THEN <<>>
  ELSE LET least == CHOOSE i \in 1..Len(dates) :
                      \A j \in 1..Len(dates) : ~DateBefore(dates[j], dates[i])
       IN  <<dates[least]>>
           \o sort([k \in 1..(Len(dates) - 1) |->
                      IF k < least THEN dates[k] ELSE dates[k + 1]])

\* byDate.get(d): the rows whose normalized date is d, in input order.
byDate(rows, d) == SelectSeq(rows, LAMBDA r : formatDate(r.date) = d)
\* rows.find((r) => r.symbol === symbol): the first such row, or undefined.
find(rows, symbol) ==
  LET at == {i \in 1..Len(rows) : rows[i].symbol = symbol}
  IN  IF at = {} THEN Undefined ELSE rows[Min(at)]

NoRange == <<"No positions found for this wallet in the specified date range.">>

seriesLine_zeroFilled(date, row) ==
  IF row = Undefined
    THEN TableLine(<< date, formatBalance(0), formatUSD(0), <<"$">> \o toFixed(0, 1, 4) >>)
  ELSE TableLine(<< date, formatBalance(row.balance), formatUSD(row.usd_balance),
                    <<"$">> \o toFixed(row.usd_exchange_rate, 1, 4) >>)
\* The table of one symbol: a line for each date that has a row of it.
seriesLine(date, row) ==
  IF row = Undefined THEN <<>>
  ELSE TableLine(<< date, formatBalance(row.balance), formatUSD(row.usd_balance),
                    <<"$">> \o toFixed(row.usd_exchange_rate, 1, 4) >>)
seriesTable(rows, dates, symbol) ==
  <<"#### ", symbol, "\n", "\n">>
  \o TableLine(<< <<"Date">>, <<"Balance">>, <<"USD Value">>, <<"Price">> >>)
  \o RuleLine(<<"------", "---------", "-----------", "-------">>)
  \o Concat([i \in 1..Len(dates) |->
               seriesLine(dates[i], find(byDate(rows, dates[i]), symbol))])
  \o <<"\n">>

\* base > 0 ? ((change / base) * 100).toFixed(2) + "%" : "N/A"
pctChange(change, base) ==
  IF base > 0 THEN percentFixed(change, base) \o <<"%">> ELSE <<"N/A">>

formatRangeTable(rows) ==
  IF Len(rows) = 0 THEN NoRange
  ELSE LET dates      == sort(Unique([i \in 1..Len(rows) |-> formatDate(rows[i].date)]))
           symbols    == Unique([i \in 1..Len(rows) |-> rows[i].symbol])
           startDate  == dates[1]
           endDate    == dates[Len(dates)]
           firstTotal == SumUSD(byDate(rows, dates[1]))
           lastTotal  == SumUSD(byDate(rows, dates[Len(dates)]))
           change     == lastTotal - firstTotal
       IN  <<"### Position History for ", Tick>> \o shortAddr(rows[1].address)
           \o <<Tick, " (">> \o startDate \o <<" to ">> \o endDate \o <<")", "\n", "\n">>
           \o Concat([i \in 1..Len(symbols) |-> seriesTable(rows, dates, symbols[i])])
           \o <<"**Period Summary:**", "\n">>
           \o <<"- Start value (">> \o startDate \o <<"): ">> \o formatUSD(firstTotal)
           \o <<"\n">>
           \o <<"- End value (">> \o endDate \o <<"): ">> \o formatUSD(lastTotal)
           \o <<"\n">>
           \o <<"- Change: ">> \o formatUSD(change) \o <<" (">>
           \o (IF firstTotal > 0 THEN percentFixed(change, firstTotal) ELSE <<"N/A">>)
           \o <<"%)", "\n">>
           \o DataSource

NoComparison_emptyTable == TableLine(<< <<"Token">> >>)
NoComparison == <<"No positions found for comparison on the specified dates.">>

\* r?.balance ?? 0 and r?.usd_balance ?? 0
balanceOf(r) == IF r = Undefined THEN 0 ELSE r.balance
usdOf(r) == IF r = Undefined THEN 0 ELSE r.usd_balance

onDate_all(rows, date) == rows
\* rows.filter((r) => formatDate(r.date) === date)
onDate(rows, date) == SelectSeq(rows, LAMBDA r : Str(formatDate(r.date)) = date)

comparisonLine(d1Rows, d2Rows, symbol) ==
  LET r1 == find(d1Rows, symbol)
      r2 == find(d2Rows, symbol)
  IN  TableLine(<< <<symbol>>,
                   formatBalance(balanceOf(r1)), formatUSD(usdOf(r1)),
                   formatBalance(balanceOf(r2)), formatUSD(usdOf(r2)),
                   formatUSD(usdOf(r2) - usdOf(r1)),
                   pctChange(usdOf(r2) - usdOf(r1), usdOf(r1)) >>)

\* totalD1 and totalD2 after the loop over allSymbols.
RECURSIVE totalOf(_, _)
totalOf(dRows, symbols) ==
  IF symbols = <<>> THEN 0
  ELSE usdOf(find(dRows, Head(symbols))) + totalOf(dRows, Tail(symbols))

formatComparisonTable(rows, date1, date2) ==
  IF Len(rows) = 0 THEN NoComparison
  ELSE LET d1Rows     == onDate(rows, date1)
           d2Rows     == onDate(rows, date2)
           allSymbols == Unique([i \in 1..Len(d1Rows) |-> d1Rows[i].symbol]
                                \o [i \in 1..Len(d2Rows) |-> d2Rows[i].symbol])
           totalD1    == totalOf(d1Rows, allSymbols)
           totalD2    == totalOf(d2Rows, allSymbols)
           day1       == Interpolate(date1)
           day2       == Interpolate(date2)
       IN  <<"### Position Comparison for ", Tick>> \o shortAddr(rows[1].address)
           \o <<Tick, ": ">> \o day1 \o <<" vs ">> \o day2 \o <<"\n", "\n">>
           \o TableLine(<< <<"Token">>,
                           <<"Balance (">> \o day1 \o <<")">>,
                           <<"USD (">> \o day1 \o <<")">>,
                           <<"Balance (">> \o day2 \o <<")">>,
                           <<"USD (">> \o day2 \o <<")">>,
                           <<"Change">>, <<"% Change">> >>)
           \o RuleLine(<<"-------", "------------------", "----------------",
                         "------------------", "----------------", "--------",
                         "----------">>)
           \o Concat([i \in 1..Len(allSymbols) |->
                        comparisonLine(d1Rows, d2Rows, allSymbols[i])])
           \o <<"\n", "**Total Portfolio:**", "\n">>
           \o <<"- ">> \o day1 \o <<": ">> \o formatUSD(totalD1) \o <<"\n">>
           \o <<"- ">> \o day2 \o <<": ">> \o formatUSD(totalD2) \o <<"\n">>
           \o <<"- Change: ">> \o formatUSD(totalD2 - totalD1) \o <<" (">>
           \o pctChange(totalD2 - totalD1, totalD1) \o <<")", "\n">>
           \o DataSource

\* The formatter called on result.data: rows.length of an undefined row set
\* is a TypeError.
formatReport(formatter, data, date1, date2) ==
  IF data = Undefined
    THEN Thrown(Error("TypeError", <<"Cannot read properties of undefined (reading 'length')">>))
  ELSE IF formatter = "formatPositionTable" THEN Returned(formatPositionTable(data.v))
  ELSE IF formatter = "formatRangeTable" THEN Returned(formatRangeTable(data.v))
  ELSE Returned(formatComparisonTable(data.v, date1, date2))

\* --------------------------------------------------------- request handler

HelpText ==
  <<"I can help you look up historical DeFi lending positions on Solana (Kamino). Try: ...">>
MsgNotUnderstood == <<"I couldn't understand that query.">>
MsgSnapshotNeeds ==
  <<"I need both a wallet address and a date. Try: ",
    "'Show me positions for `<wallet>` on 2025-12-31'">>
MsgRangeNeeds ==
  <<"I need a wallet address, start date, and end date. Try: ",
    "'Show positions for `<wallet>` from 2025-10-01 to 2025-12-31'">>
MsgComparisonNeeds ==
  <<"I need a wallet address and two dates to compare. Try: ",
    "'Compare `<wallet>` on 2025-09-30 vs 2025-12-31'">>
MsgUnsupported == <<"Unsupported query type.">>

\* NextResponse.json(body, { status }): a key the body lacks is Undefined.
Response(status, response, query_type, sql, error) ==
  [status |-> status, response |-> response, query_type |-> query_type,
   sql |-> sql, error |-> error]

\* Lines 19-24.
badRequest == Response(400, Undefined, Undefined, Undefined, Str(<<"Message is required">>))

\* `a || b` on a JavaScript value and a default.
OrElse(a, b) == IF Truthy(a) THEN a ELSE b

\* Lines 30-35 and 39-42.
helpResponse(parsed) ==
  Response(200, OrElse(parsed.message, Str(HelpText)), Lit("help"), Undefined, Undefined)
errorResponse(parsed) ==
  Response(200, OrElse(parsed.message, Str(MsgNotUnderstood)), Lit("error"),
           Undefined, Undefined)

\* The guard responses of the switch, and its default.
guidance(message) == Response(200, Str(message), Lit("error"), Undefined, Undefined)

catchResponse_generic(error) ==
  Response(500, Str(<<"Something went wrong: ", "Unknown error">>), Lit("error"),
           Undefined, Undefined)
\* The catch block, lines 118-129; everything the model throws is an Error.
catchResponse(error) ==
  Response(500, Str(<<"Something went wrong: ">> \o error.message), Lit("error"),
           Undefined, Undefined)

okResponse_snapshotOnly(formatted, type, sql) ==
  Response(200, Str(formatted), type,
           IF type = Lit("snapshot") THEN Str(sql) ELSE Undefined, Undefined)
\* Lines 113-117.
okResponse(formatted, type, sql) ==
  Response(200, Str(formatted), type, Str(sql), Undefined)

missingSnapshot_addressOnly(parsed) == ~Truthy(parsed.address)
\* Lines 51, 65 and 84.
missingSnapshot(parsed) == ~Truthy(parsed.address) \/ ~Truthy(parsed.date)
missingRange(parsed) ==
  ~Truthy(parsed.address) \/ ~Truthy(parsed.start_date) \/ ~Truthy(parsed.end_date)
missingComparison(parsed) ==
  ~Truthy(parsed.address) \/ ~Truthy(parsed.date1) \/ ~Truthy(parsed.date2)

\* The compiler call of each case, as the record of the call and its result.
Call(fn, parsed, first, second) ==
  [fn |-> fn, address |-> parsed.address, first |-> first, second |-> second,
   protocol |-> parsed.protocol]

\* Lines 29-111 for a parsed value whose .type can be read: a response, or
\* the compiler call the switch makes.
route(parsed) ==
  LET type == TypeOf(parsed)
  IN  IF type = Lit("help") THEN [respond |-> TRUE, response |-> helpResponse(parsed)]
      ELSE IF type = Lit("error")
        THEN [respond |-> TRUE, response |-> errorResponse(parsed)]
      ELSE IF type = Lit("snapshot")
        THEN IF missingSnapshot(parsed)
               THEN [respond |-> TRUE, response |-> guidance(MsgSnapshotNeeds)]
               ELSE [respond |-> FALSE,
                     call |-> Call("buildPositionQuery", parsed, parsed.date, Undefined),
                     sql |-> buildPositionQuery(parsed.address, parsed.date,
                                                parsed.protocol)]
      ELSE IF type = Lit("range")
        THEN IF missingRange(parsed)
               THEN [respond |-> TRUE, response |-> guidance(MsgRangeNeeds)]
               ELSE [respond |-> FALSE,
                     call |-> Call("buildPositionRangeQuery", parsed,
                                   parsed.start_date, parsed.end_date),
                     sql |-> buildPositionRangeQuery(parsed.address, parsed.start_date,
                                                     parsed.end_date, parsed.protocol)]
      ELSE IF type = Lit("comparison")
        THEN IF missingComparison(parsed)
               THEN [respond |-> TRUE, response |-> guidance(MsgComparisonNeeds)]
               ELSE [respond |-> FALSE,
                     call |-> Call("buildComparisonQuery", parsed,
                                   parsed.date1, parsed.date2),
                     sql |-> buildComparisonQuery(parsed.address, parsed.date1,
                                                  parsed.date2, parsed.protocol)]
      ELSE [respond |-> TRUE, response |-> guidance(MsgUnsupported)]

\* Lines 60, 79 and 98-102: the formatter of the intent's kind on result.data.
formatFor(parsed, data) ==
  IF parsed.type = Lit("snapshot")
    THEN formatReport("formatPositionTable", data, Undefined, Undefined)
  ELSE IF parsed.type = Lit("range")
    THEN formatReport("formatRangeTable", data, Undefined, Undefined)
  ELSE formatReport("formatComparisonTable", data, parsed.date1, parsed.date2)

\* ------------------------------------------------------------------ inputs

SampleRow ==
  [date |-> Date1231, address |-> Address32, project |-> "kamino",
   protocol |-> "kvault", symbol |-> "USDC", balance |-> 100, usd_balance |-> 100,
   usd_exchange_rate |-> 1, lending_id |-> "L1", mint |-> "M1",
   token_name |-> "USD Coin"]
RowSets == {Rows(<<>>), Rows(<<SampleRow>>)}

\* The rows the formatters are tried on: three dates (one with a time of
\* day), two symbols, a symbol twice on one date, rows worth nothing.
TimeOfDay == <<"T", "0", "0", ":", "0", "0", ":", "0", "0">>
Holding(date, symbol, balance, usd, rate) ==
  [SampleRow EXCEPT !.date = date, !.symbol = symbol, !.balance = balance,
                    !.usd_balance = usd, !.usd_exchange_rate = rate]
RowPool ==
  { Holding(Date0930, "USDC", 300, 300, 1),
    Holding(Date0930, "SOL", 10, 1500, 150),
    Holding(Date0930, "USDC", 7, 0, 0),
    Holding(Date1001 \o TimeOfDay, "USDC", 250, 0, 0),
    Holding(Date1001 \o TimeOfDay, "SOL", 1, 175, 175),
    Holding(Date1231, "USDC", 500, 500, 1),
    Holding(Date1231, "USDC", 125, 125, 1),
    Holding(Date1231, "SOL", 2, 40, 20) }
\* The wallet of a row set: an address, and texts of eight and three characters.
WalletPool == {Address32, Piece(Address44, 1, 8), Piece(Address44, 1, 3)}
OfWallet(rows, address) == [i \in 1..Len(rows) |-> [rows[i] EXCEPT !.address = address]]
FormatterRows ==
  {Rows(OfWallet(rows, a)) : rows \in SeqsUpTo(RowPool, MaxRows), a \in WalletPool}
\* The intents whose result is formatted.
FormatterIntents ==
  { [BlankQuery EXCEPT !.type = Lit("snapshot"), !.address = Str(Address32),
                       !.date = Str(Date1231)],
    [BlankQuery EXCEPT !.type = Lit("range"), !.address = Str(Address32),
                       !.start_date = Str(Date0930), !.end_date = Str(Date1231)],
    [BlankQuery EXCEPT !.type = Lit("comparison"), !.address = Str(Address32),
                       !.date1 = Str(Date0930), !.date2 = Str(Date1231)],
    [BlankQuery EXCEPT !.type = Lit("comparison"), !.address = Str(Address32),
                       !.date1 = Str(Date1231), !.date2 = Str(Date1001)] }

\* Fragments of the messages posted to the handler.
PoolR ==
  { TermHelp,
    Address32,
    <<" ">> \o TermCompare \o <<" ">> \o Date1231 \o <<" ">> \o TermVs \o <<" ">> \o Date0930,
    <<" ">> \o TermFrom \o <<" ">> \o Date1001 \o <<" to ">> \o Date1231,
    <<" on ">> \o Date1231 }
Messages == UtterancesOf(PoolR, MaxReqFrags)

\* Request bodies: not JSON at all, or an object whose message is absent,
\* empty, a number or an utterance.
Bodies ==
  {[json |-> FALSE, message |-> Undefined]}
  \cup {[json |-> TRUE, message |-> m] :
          m \in {Undefined, Str(<<>>), Num(<<"7">>)} \cup {Str(u) : u \in Messages \ {<<>>}}}

Kamino == <<"K", "a", "m", "i", "n", "o">>
\* An address text that closes the quote of the condition it is put in.
QuotingAddress == <<"x", "'", " ", "O", "R", " ", "'", "1", "'", "=", "'", "1">>
AddressValues  == {Undefined, Str(<<>>), Str(Address32), Num(<<"7">>), Str(QuotingAddress)}
DateValues     == {Undefined, Null, Str(<<>>), Str(Date1231)}
ProtocolValues == {Undefined, Str(<<>>), Str(Kamino), Num(<<"7">>)}
MessageValues  == {Undefined, Str(<<"Ask me about a wallet.">>)}

\* The JSON values the NL service may answer with.
NLObjects ==
  {BlankQuery, [BlankQuery EXCEPT !.type = Lit("portfolio")]}
  \cup {[BlankQuery EXCEPT !.type = Lit(k), !.message = m] :
          k \in {"help", "error"}, m \in MessageValues}
  \cup {[BlankQuery EXCEPT !.type = Lit("snapshot"), !.address = a, !.date = d,
                           !.protocol = p] :
          a \in AddressValues, d \in DateValues, p \in ProtocolValues}
  \cup {[BlankQuery EXCEPT !.type = Lit("range"), !.address = a, !.start_date = d,
                           !.end_date = e, !.protocol = p] :
          a \in AddressValues \ {Num(<<"7">>)}, d \in DateValues \ {Null},
          e \in {Undefined, Str(Date1001)}, p \in {Undefined, Str(Kamino)}}
  \cup {[BlankQuery EXCEPT !.type = Lit("comparison"), !.address = a, !.date1 = d,
                           !.date2 = e, !.protocol = p] :
          a \in AddressValues \ {Num(<<"7">>)}, d \in DateValues \ {Null},
          e \in {Null, Str(Date0930)}, p \in {Undefined, Str(Kamino)}}
NLValues == {Null, Num(<<"42">>), Lit("snapshot"), Arr} \cup NLObjects

CompleteSnapshot ==
  [BlankQuery EXCEPT !.type = Lit("snapshot"), !.address = Str(Address32),
                     !.date = Str(Date1231)]

TextBlock(text) == [type |-> "text", text |-> text]
ToolUseBlock == [type |-> "tool_use", text |-> <<>>]
NLMessage(content) == [kind |-> "message", content |-> content]

\* How the NL call may end: rejected, or a message whose first block holds
\* one JSON value, a value in white space, a value after prose, two values,
\* prose alone, nothing, or no text block at all.
NLOutcomes ==
  {[kind |-> "reject", content |-> <<>>], NLMessage(<<>>), NLMessage(<<ToolUseBlock>>),
   NLMessage(<<TextBlock(<<>>)>>), NLMessage(<<TextBlock(<<Prose>>)>>)}
  \cup {NLMessage(<<TextBlock(<<Json(v)>>)>>) : v \in NLValues}
  \cup {NLMessage(<<TextBlock(t)>>) :
          t \in UNION {{<<WS, Json(v), WS>>, <<Prose, Json(v)>>, <<Json(v), Json(v)>>} :
                        v \in {CompleteSnapshot, helpIntent}}}

AlliumOutcomes ==
  {FetchRejected,
   Fetched(FALSE, FALSE, Null),
   Fetched(TRUE, FALSE, Null),
   Fetched(TRUE, TRUE, InvalidJson),
   Fetched(TRUE, TRUE, Null),
   Fetched(TRUE, TRUE, Rpc(Str(<<"relation does not exist">>), Undefined, Undefined)),
   Fetched(TRUE, TRUE, Rpc(Str(<<"relation does not exist">>),
                           [data |-> Rows(<<SampleRow>>)], Undefined)),
   Fetched(TRUE, TRUE, Rpc(Undefined, [data |-> Undefined], Undefined)),
   Fetched(TRUE, TRUE, Rpc(Undefined, Undefined, Undefined)),
   Fetched(TRUE, TRUE, Rpc(Undefined, Undefined, Str(<<Prose>>)))}
  \cup {Fetched(TRUE, TRUE, Rpc(Undefined, [data |-> rows], Undefined)) : rows \in RowSets}
  \cup {Fetched(TRUE, TRUE, Rpc(Undefined, Undefined, Str(<<Json([data |-> rows])>>))) :
          rows \in RowSets}

\* ------------------------------------------------------------ the chat page

\* interface Message, lines 7-12: a key the object lacks is Undefined.
Message(role, content, sql, query_type) ==
  [role |-> role, content |-> content, sql |-> sql, query_type |-> query_type]

Date1201 == <<"2", "0", "2", "5", "-", "1", "2", "-", "0", "1">>

\* Lines 14-18, one character per piece.
ShowMePositionsFor ==
  <<"S", "h", "o", "w", " ", "m", "e", " ", "p", "o", "s", "i", "t", "i", "o", "n", "s",
    " ", "f", "o", "r", " ">>
ShowPositionHistoryFor ==
  <<"S", "h", "o", "w", " ", "p", "o", "s", "i", "t", "i", "o", "n", " ", "h", "i", "s",
    "t", "o", "r", "y", " ", "f", "o", "r", " ">>
EXAMPLE_QUERIES ==
  << ShowMePositionsFor \o Address44 \o <<" ", "o", "n", " ">> \o Date1231,
     ShowPositionHistoryFor \o Address44 \o <<" ", "f", "r", "o", "m", " ">> \o Date1201
       \o <<" ", "t", "o", " ">> \o Date1231,
     <<"C", "o", "m", "p", "a", "r", "e", " ">> \o Address44 \o <<" ", "o", "n", " ">>
       \o Date1001 \o <<" ", "v", "s", " ">> \o Date1231 >>

\* The character U+2014, which a string of this module cannot hold.
EmDash == "[U+2014]"
\* The first message of the list, lines 21-38.
Welcome ==
  Message("assistant",
    Str(<<"Welcome to the **DeFi Position Explorer** ", EmDash,
          " an AI-powered tool for auditing historical lending positions on Solana.",
          "\n", "\n", "I can help you:", "\n",
          "- **Look up** a wallet's Kamino lending position at any historical date", "\n",
          "- **Track** position changes over a date range", "\n",
          "- **Compare** positions between two dates (e.g., quarter-end vs quarter-end)",
          "\n", "\n", "**Try asking:**", "\n",
          "- \"Show me positions for ", Tick, "<wallet_address>", Tick, " on 2025-12-31\"",
          "\n",
          "- \"Show history for ", Tick, "<wallet_address>", Tick,
          " from 2025-10-01 to 2025-12-31\"", "\n",
          "- \"Compare ", Tick, "<wallet_address>", Tick, " on 2025-09-30 vs 2025-12-31\"",
          "\n", "\n",
          "Available data: Kamino (Solana) | USDC, SOL, PYUSD, USDG, USDT | March 2025 onwards">>),
    Undefined, Undefined)

\* String.prototype.trim of line 50, on a text of one character per piece.
WhiteSpace == {" ", "\t", "\n"}
RECURSIVE TrimStart(_)
TrimStart(text) ==
  IF text # <<>> /\ Head(text) \in WhiteSpace THEN TrimStart(Tail(text)) ELSE text
StringTrim(text) == Reverse(TrimStart(Reverse(TrimStart(text))))

\* Line 51: `!trimmed || isLoading`, the early return of handleSend.
rejected(trimmed, loading) == trimmed = <<>> \/ loading

\* Line 53.
UserMessage(trimmed) == Message("user", Str(trimmed), Undefined, Undefined)
\* Lines 66-71: what data lacks is undefined in the message too.
AssistantMessage(data) == Message("assistant", data.response, data.sql, data.query_type)
\* Lines 74-80.
FailedToConnect ==
  Message("assistant",
          Str(<<"Failed to connect to the server. Make sure the app is running.">>),
          Undefined, Undefined)

\* A call of handleSend suspended at an await: at the fetch of line 59 or at
\* the res.json() of line 65, then with the body the fetch resolved to.
Pending(message, at, res) == [message |-> message, at |-> at, res |-> res]
Remove(calls, i) == [j \in 1..(Len(calls) - 1) |-> IF j < i THEN calls[j] ELSE calls[j + 1]]

\* What the page can type: nothing, blanks, and a question between blanks.
TypedValues == {<<>>, <<" ", " ">>, <<" ">> \o TermHelp \o <<" ">>}

\* What a settled fetch can carry: a body of the handler, or one that is not
\* JSON (a gateway's error page), on which res.json() rejects.
NotJson == [t |-> "notjson"]
ServerBodies ==
  {badRequest, guidance(MsgUnsupported),
   okResponse(NoPositions, Lit("snapshot"),
              buildPositionQuery(Str(Address44), Str(Date1231), Undefined)),
   NotJson}

\* The accepted sends a behaviour of the page is followed for.
MaxSends == 3
\* ------------------------------------------------------------------ state

VARIABLES
  p_msg,     \* regexParse: the utterance it is called with
  p_out,     \* regexParse: what it returned
  p_pc,      \* regexParse: "call" before the call, "done" after
  env,       \* process.env: which of the two API keys are set
  pc,        \* POST: where the request is
  body,      \* POST: the request body
  nl,        \* parseUserQuery: how the NL call ended
  parsed,    \* POST: what parseUserQuery returned
  via,       \* which parser produced parsed: "none", "nl" or "regex"
  events,    \* the external calls, as they start and end
  built,     \* the compiler calls made
  sql,       \* POST: the compiled query
  sent,      \* queryAllium: the query text of each call
  qaError,   \* what queryAllium threw
  data,      \* POST: result.data, the rows queryAllium returned
  report,    \* POST: formattedResponse
  response,  \* POST: the response returned
  messages,  \* Home: the messages state
  input,     \* Home: the input state
  isLoading, \* Home: the isLoading state
  inFlight   \* handleSend: the calls suspended at an await, oldest first

pvars == <<p_msg, p_out, p_pc>>
hvars == <<env, pc, body, nl, parsed, via, events, built, sql, sent, qaError, data, report, response>>
uivars == <<messages, input, isLoading, inFlight>>
vars == <<p_msg, p_out, p_pc, env, pc, body, nl, parsed, via, events, built, sql,
          sent, qaError, data, report, response, messages, input, isLoading, inFlight>>

None == [t |-> "none"]

\* --------------------------------------- the parser on its own: ParserSpec

\* useState, lines 21-40.
PageIdle ==
  /\ messages = <<Welcome>>
  /\ input = <<>>
  /\ isLoading = FALSE
  /\ inFlight = <<>>

HandlerIdle ==
  /\ pc = "idle"
  /\ body = None
  /\ nl = None
  /\ parsed = Undefined
  /\ via = "none"
  /\ events = <<>>
  /\ built = <<>>
  /\ sql = Undefined
  /\ sent = <<>>
  /\ qaError = None
  /\ data = None
  /\ report = None
  /\ response = None

ParserInit ==
  /\ p_msg \in Utterances
  /\ p_out = BlankQuery
  /\ p_pc = "call"
  /\ env = [ANTHROPIC_API_KEY |-> FALSE, ALLIUM_API_KEY |-> FALSE]
  /\ HandlerIdle
  /\ PageIdle

CallRegexParse ==
  /\ p_pc = "call"
  /\ p_out' = regexParse(p_msg)
  /\ p_pc' = "done"
  /\ UNCHANGED <<p_msg, hvars, uivars>>

ParserNext == CallRegexParse

ParserSpec == ParserInit /\ [][ParserNext]_vars

\* ---------------------------- the formatters on their own: FormatterSpec

\* The handler at lines 60, 79 and 98: queryAllium has returned result.data
\* for a complete intent.
FormatterInit ==
  /\ p_msg = <<>>
  /\ p_out = BlankQuery
  /\ p_pc = "off"
  /\ env = [ANTHROPIC_API_KEY |-> TRUE, ALLIUM_API_KEY |-> TRUE]
  /\ pc = "format"
  /\ body = None
  /\ nl = None
  /\ parsed \in FormatterIntents
  /\ via = "nl"
  /\ events = <<>>
  /\ built = <<>>
  /\ sql = Undefined
  /\ sent = <<>>
  /\ qaError = None
  /\ data \in FormatterRows
  /\ report = None
  /\ response = None
  /\ PageIdle

Format ==
  /\ pc = "format"
  /\ report' = Str(formatFor(parsed, data).value)
  /\ pc' = "formatted"
  /\ UNCHANGED <<pvars, uivars, env, body, nl, parsed, via, events, built, sql, sent, qaError,
                 data, response>>

FormatterNext == Format

FormatterSpec == FormatterInit /\ [][FormatterNext]_vars
\* ------------------------------------------------- the chat page: PageSpec

\* A state update made in an event handler is rendered before the next event
\* is handled, so each handler below reads the state as the last one left it.

PageInit ==
  /\ p_msg = <<>>
  /\ p_out = BlankQuery
  /\ p_pc = "off"
  /\ env = [ANTHROPIC_API_KEY |-> FALSE, ALLIUM_API_KEY |-> FALSE]
  /\ HandlerIdle
  /\ PageIdle

Sends(list) == Cardinality({i \in DOMAIN list : list[i].role = "user"})

\* onChange of the text field, line 253; the field is disabled while loading.
onChange(value) ==
  /\ ~isLoading
  /\ input' = value
  /\ UNCHANGED <<pvars, hvars, messages, isLoading, inFlight>>

\* Lines 88-91; the examples are on the page while messages.length <= 1.
handleExampleClick(query) ==
  /\ Len(messages) <= 1
  /\ input' = query
  /\ UNCHANGED <<pvars, hvars, messages, isLoading, inFlight>>

\* handleSend up to its first await, lines 49-64: from the Enter key or from
\* the button, in any state of the page.
handleSend ==
  /\ LET trimmed == StringTrim(input)
     IN  IF rejected(trimmed, isLoading)
           THEN UNCHANGED uivars
           ELSE /\ Sends(messages) < MaxSends
                /\ messages' = Append(messages, UserMessage(trimmed))
                /\ input' = <<>>
                /\ isLoading' = TRUE
                /\ inFlight' = Append(inFlight, Pending(trimmed, "fetch", None))
  /\ UNCHANGED <<pvars, hvars>>

Finally_stillLoading(i) ==
  /\ inFlight' = Remove(inFlight, i)
  /\ UNCHANGED <<pvars, hvars, input, isLoading>>
\* The finally block of call i, lines 82-85.
Finally(i) ==
  /\ isLoading' = FALSE
  /\ inFlight' = Remove(inFlight, i)
  /\ UNCHANGED <<pvars, hvars, input>>

\* The catch block of call i, lines 73-81, and the finally block after it.
Catch(i) ==
  /\ messages' = Append(messages, FailedToConnect)
  /\ Finally(i)

\* The fetch of line 59 settles: it resolves with a body, and the call goes
\* on to await res.json(), or it rejects.
AwaitFetch ==
  \E i \in DOMAIN inFlight :
    /\ inFlight[i].at = "fetch"
    /\ \/ \E res \in ServerBodies :
            /\ inFlight' = [inFlight EXCEPT ![i] = Pending(@.message, "json", res)]
            /\ UNCHANGED <<pvars, hvars, messages, input, isLoading>>
       \/ Catch(i)

\* The res.json() of line 65 settles: lines 66-72 and the finally block, or
\* the catch block when the body is not JSON.
AwaitJson ==
  \E i \in DOMAIN inFlight :
    /\ inFlight[i].at = "json"
    /\ IF inFlight[i].res = NotJson
         THEN Catch(i)
         ELSE /\ messages' = Append(messages, AssistantMessage(inFlight[i].res))
              /\ Finally(i)

Typing == \E value \in TypedValues : onChange(value)
ExampleClick == \E k \in DOMAIN EXAMPLE_QUERIES : handleExampleClick(EXAMPLE_QUERIES[k])

PageNext == Typing \/ ExampleClick \/ handleSend \/ AwaitFetch \/ AwaitJson

\* The browser settles every fetch and every res.json(), and runs the
\* continuation of the call that awaits it.
PageSpec == PageInit /\ [][PageNext]_vars /\ WF_vars(AwaitFetch) /\ WF_vars(AwaitJson)
\* ------------------------------------------------ the request handler: Spec

Init ==
  /\ p_msg = <<>>
  /\ p_out = BlankQuery
  /\ p_pc = "off"
  /\ env \in [ANTHROPIC_API_KEY : BOOLEAN, ALLIUM_API_KEY : BOOLEAN]
  /\ HandlerIdle
  /\ PageIdle

Respond(r) ==
  /\ response' = r
  /\ pc' = "done"

\* Lines 16-24: the body is read and the message checked.
Receive(b) ==
  /\ pc = "idle"
  /\ body' = b
  /\ IF ~b.json
       THEN Respond(catchResponse(Error("SyntaxError", <<"Unexpected end of JSON input">>)))
     ELSE IF ~Truthy(b.message) \/ b.message.t # "str"
       THEN Respond(badRequest)
     ELSE pc' = "parse" /\ UNCHANGED response
  /\ UNCHANGED <<pvars, uivars, env, nl, parsed, via, events, built, sql, sent, qaError, data,
                 report>>

\* parseUserQuery without the NL credential: no call is made.
ParseWithoutKey ==
  /\ pc = "parse"
  /\ ~env.ANTHROPIC_API_KEY
  /\ parsed' = parseUserQuery(body.message.v, FALSE, None).value
  /\ via' = "regex"
  /\ pc' = "dispatch"
  /\ UNCHANGED <<pvars, uivars, env, body, nl, events, built, sql, sent, qaError, data, report, response>>

\* client.messages.create is issued.
CallClaude ==
  /\ pc = "parse"
  /\ env.ANTHROPIC_API_KEY
  /\ events' = Append(events, "nl:start")
  /\ pc' = "nl_wait"
  /\ UNCHANGED <<pvars, uivars, env, body, nl, parsed, via, built, sql, sent, qaError, data,
                 report, response>>

\* The NL call ends and parseUserQuery returns (or, were it to throw, the
\* handler's catch block answers).
ClaudeDone(outcome) ==
  /\ pc = "nl_wait"
  /\ nl' = outcome
  /\ events' = Append(events, "nl:end")
  /\ LET r == parseUserQuery(body.message.v, TRUE, outcome)
     IN  IF r.threw
           THEN /\ Respond(catchResponse(r.error))
                /\ UNCHANGED <<parsed, via>>
           ELSE /\ parsed' = r.value
                /\ via' = IF tryClaude(outcome).threw THEN "regex" ELSE "nl"
                /\ pc' = "dispatch"
                /\ UNCHANGED response
  /\ UNCHANGED <<pvars, uivars, env, body, built, sql, sent, qaError, data, report>>

\* Lines 29-111, up to the fetch of queryAllium.
Dispatch ==
  /\ pc = "dispatch"
  /\ IF parsed \in {Null, Undefined}
       THEN /\ Respond(catchResponse(Error("TypeError",
                         <<"Cannot read properties of null (reading 'type')">>)))
            /\ UNCHANGED <<events, built, sql, sent, qaError>>
     ELSE LET r == route(parsed)
          IN  IF r.respond
                THEN /\ Respond(r.response)
                     /\ UNCHANGED <<events, built, sql, sent, qaError>>
              ELSE /\ built' = Append(built, r.call)
                   /\ IF r.sql.threw
                        THEN /\ Respond(catchResponse(r.sql.error))
                             /\ UNCHANGED <<events, sql, sent, qaError>>
                      ELSE /\ sql' = Str(r.sql.value)
                           /\ sent' = Append(sent, r.sql.value)
                           /\ IF ~env.ALLIUM_API_KEY
                                THEN /\ qaError' = MissingAlliumKey
                                     /\ Respond(catchResponse(MissingAlliumKey))
                                     /\ UNCHANGED events
                                ELSE /\ events' = Append(events, "allium:start")
                                     /\ pc' = "exec"
                                     /\ UNCHANGED <<qaError, response>>
  /\ UNCHANGED <<pvars, uivars, env, body, nl, parsed, via, data, report>>

\* The fetch ends: queryAllium returns or throws, the rows are formatted and
\* the response goes out.
QueryDone(outcome) ==
  /\ pc = "exec"
  /\ events' = Append(events, "allium:end")
  /\ LET r == queryAlliumFetched(outcome)
     IN  IF r.threw
           THEN /\ qaError' = r.error
                /\ Respond(catchResponse(r.error))
                /\ UNCHANGED <<data, report>>
           ELSE LET f == formatFor(parsed, r.value.data)
                IN  /\ UNCHANGED qaError
                    /\ data' = r.value.data
                    /\ IF f.threw
                         THEN Respond(catchResponse(f.error)) /\ UNCHANGED report
                         ELSE /\ report' = Str(f.value)
                              /\ Respond(okResponse(f.value, parsed.type, sql.v))
  /\ UNCHANGED <<pvars, uivars, env, body, nl, parsed, via, built, sql, sent>>

Next ==
  \/ \E b \in Bodies : Receive(b)
  \/ ParseWithoutKey
  \/ CallClaude
  \/ \E outcome \in NLOutcomes : ClaudeDone(outcome)
  \/ Dispatch
  \/ \E outcome \in AlliumOutcomes : QueryDone(outcome)

Spec == Init /\ [][Next]_vars
\* ======================================================== the claims

\* Two characters that are the same letter in either case.
SameLetter(a, b) ==
  a = b \/ \E k \in 1..26 : {a, b} = {UpperAlpha[k], LowerAlpha[k]}

\* term occurs in s, letter case ignored; s is term, letter case ignored.
FoundCI(s, term) ==
  \E i \in 0..(Len(s) - Len(term)) :
     \A k \in 1..Len(term) : SameLetter(s[i + k], term[k])
WholeCI(s, term) ==
  Len(s) = Len(term) /\ \A k \in 1..Len(term) : SameLetter(s[k], term[k])

\* /help|what can you|^hi$|^hello$/i
HelpPattern(s) ==
  \/ FoundCI(s, TermHelp)
  \/ FoundCI(s, TermWhatCanYou)
  \/ WholeCI(s, TermHi)
  \/ WholeCI(s, TermHello)
ComparisonTerm(s) ==
  FoundCI(s, TermCompare) \/ FoundCI(s, TermVs) \/ FoundCI(s, TermVersus)
RangeTerm(s) ==
  \/ FoundCI(s, TermFrom)
  \/ FoundCI(s, TermHistory)
  \/ FoundCI(s, TermRange)
  \/ FoundCI(s, TermBetween)

\* The substrings of s that are n base58 characters, n in 32..44, by position.
AddressSubstrings(s) ==
  {<<i, n>> \in (1..Len(s)) \X (MinAddrLen..MaxAddrLen) :
     /\ i + n - 1 <= Len(s)
     /\ \A k \in 0..(n - 1) : s[i + k] \in Base58}
\* The maximal runs of base58 characters in s, by position and length.
Base58Runs(s) ==
  {<<i, n>> \in (1..Len(s)) \X (1..Len(s)) :
     /\ i + n - 1 <= Len(s)
     /\ \A k \in 0..(n - 1) : s[i + k] \in Base58
     /\ i = 1 \/ s[i - 1] \notin Base58
     /\ i + n > Len(s) \/ s[i + n] \notin Base58}
\* Where a date stands in s, and the dates standing after the first one.
DatePositions(s) == {i \in 1..Len(s) : DateAt(s, i)}
FirstDate(s) == Piece(s, Min(DatePositions(s)), DateLen)
LaterPositions(s) ==
  {i \in DatePositions(s) : i >= Min(DatePositions(s)) + DateLen}
SecondDate(s) == Piece(s, Min(LaterPositions(s)), DateLen)

\* A message that shows a wallet address in an example query.
MentionsWalletExample(message) ==
  \E i \in 1..Len(message) :
     message[i] = "'Show me positions for `<wallet_address>` on 2025-12-31'"

\* The runs that are an address as they stand, and the runs that are too long.
AddressRuns(s) == {r \in Base58Runs(s) : r[2] \in MinAddrLen..MaxAddrLen}
LongRuns(s) == {r \in Base58Runs(s) : r[2] > MaxAddrLen}

\* The address of an intent is a substring of the utterance that is 32 to 44
\* base58 characters; when the utterance has one run of that length and none
\* longer, it is that run.
IsAddressOf(address, s) ==
  /\ address.t = "str"
  /\ \E w \in AddressSubstrings(s) : address.v = Piece(s, w[1], w[2])
  /\ \A r \in AddressRuns(s) :
        (Cardinality(AddressRuns(s)) = 1 /\ LongRuns(s) = {})
          => address.v = Piece(s, r[1], r[2])

\* C7: every utterance matching /help|what can you|^hi$|^hello$/i parses to
\* kind help, whatever else (an address, dates, comparison or range terms) it
\* holds.
C7_HelpPatternGivesHelp ==
  (p_pc = "done" /\ HelpPattern(p_msg)) => p_out = helpIntent

C7_Witness ==
  /\ p_pc = "done"
  /\ HelpPattern(p_msg)
  /\ ~includes(p_msg, TermHelp)
  /\ AddressSubstrings(p_msg) # {}
  /\ DatePositions(p_msg) # {}
  /\ ComparisonTerm(p_msg)
  /\ p_out.type = Lit("help")

\* C8 as the spec states it: every utterance with no base58 substring of
\* length 32-44 parses to kind error with a message showing a wallet address
\* example.
C8_NoAddressGivesError ==
  (p_pc = "done" /\ AddressSubstrings(p_msg) = {})
    => /\ p_out.type = Lit("error")
       /\ p_out.message.t = "str"
       /\ MentionsWalletExample(p_out.message.v)

\* C8 amended: every utterance with no base58 substring of length 32-44 that
\* does not match the help pattern parses to kind error with the message that
\* asks for a wallet address and shows one in an example.
C8_NoAddressNoHelpGivesError ==
  (p_pc = "done" /\ AddressSubstrings(p_msg) = {} /\ ~HelpPattern(p_msg))
    => /\ p_out = errorIntent(MsgNeedAddress)
       /\ MentionsWalletExample(p_out.message.v)

C8_Witness ==
  /\ p_pc = "done"
  /\ AddressSubstrings(p_msg) = {}
  /\ ~HelpPattern(p_msg)
  /\ \E r \in Base58Runs(p_msg) : r[2] = MinAddrLen - 1
  /\ DatePositions(p_msg) # {}
  /\ p_out.type = Lit("error")

\* C9: an utterance with a valid address and exactly one date, no help,
\* comparison or range term, parses to kind snapshot with that date and that
\* address; one with a valid address, no date and no help term parses to kind
\* error asking for a date.
C9_OneDateGivesSnapshot ==
  /\ (/\ p_pc = "done"
      /\ AddressSubstrings(p_msg) # {}
      /\ Cardinality(DatePositions(p_msg)) = 1
      /\ ~HelpPattern(p_msg)
      /\ ~ComparisonTerm(p_msg)
      /\ ~RangeTerm(p_msg))
       => /\ p_out.type = Lit("snapshot")
          /\ p_out.date = Str(FirstDate(p_msg))
          /\ IsAddressOf(p_out.address, p_msg)
          /\ p_out = snapshotIntent(p_out.address, <<FirstDate(p_msg)>>)
  /\ (/\ p_pc = "done"
      /\ AddressSubstrings(p_msg) # {}
      /\ DatePositions(p_msg) = {}
      /\ ~HelpPattern(p_msg))
       => p_out = errorIntent(MsgNeedDate)

C9_Witness ==
  /\ p_pc = "done"
  /\ Cardinality(AddressRuns(p_msg)) = 1
  /\ LongRuns(p_msg) = {}
  /\ Cardinality(DatePositions(p_msg)) = 1
  /\ ~HelpPattern(p_msg)
  /\ ~ComparisonTerm(p_msg)
  /\ ~RangeTerm(p_msg)
  /\ p_out.type = Lit("snapshot")
  /\ p_out.address = Str(Address32)
  /\ p_out.date = Str(Date1001)

\* C10: an utterance with no help term, an address, a comparison term and at
\* least two dates parses to kind comparison with date1 the first and date2
\* the second date from the left, not re-sorted, also when a range term is
\* present.
C10_ComparisonKeepsDateOrder ==
  (/\ p_pc = "done"
   /\ ~HelpPattern(p_msg)
   /\ AddressSubstrings(p_msg) # {}
   /\ ComparisonTerm(p_msg)
   /\ DatePositions(p_msg) # {}
   /\ LaterPositions(p_msg) # {})
    => /\ p_out.type = Lit("comparison")
       /\ p_out.date1 = Str(FirstDate(p_msg))
       /\ p_out.date2 = Str(SecondDate(p_msg))
       /\ IsAddressOf(p_out.address, p_msg)
       /\ p_out = comparisonIntent(p_out.address,
                                   <<FirstDate(p_msg), SecondDate(p_msg)>>)

C10_Witness ==
  /\ p_pc = "done"
  /\ p_out.type = Lit("comparison")
  /\ RangeTerm(p_msg)
  /\ p_out.date1 = Str(Date1231)
  /\ p_out.date2 = Str(Date0930)
  /\ DateBefore(p_out.date2.v, p_out.date1.v)

\* s holds at least two dates, one standing after the other.
TwoDates(s) == DatePositions(s) # {} /\ LaterPositions(s) # {}

\* C11: an utterance with no help term, an address, no comparison term, a
\* range term (from, history, range, between) and at least two dates parses to
\* kind range with start_date the first and end_date the second date from the
\* left; an utterance with a comparison or range term and fewer than two dates
\* parses to neither range nor comparison.
C11_RangeKeepsDateOrder ==
  /\ (/\ p_pc = "done"
      /\ ~HelpPattern(p_msg)
      /\ AddressSubstrings(p_msg) # {}
      /\ ~ComparisonTerm(p_msg)
      /\ RangeTerm(p_msg)
      /\ TwoDates(p_msg))
       => /\ p_out.type = Lit("range")
          /\ p_out.start_date = Str(FirstDate(p_msg))
          /\ p_out.end_date = Str(SecondDate(p_msg))
          /\ IsAddressOf(p_out.address, p_msg)
          /\ p_out = rangeIntent(p_out.address, <<FirstDate(p_msg), SecondDate(p_msg)>>)
  /\ (/\ p_pc = "done"
      /\ ComparisonTerm(p_msg) \/ RangeTerm(p_msg)
      /\ ~TwoDates(p_msg))
       => p_out.type \notin {Lit("range"), Lit("comparison")}

\* A range whose dates stand latest first, and a range term beside one date.
C11_Witness ==
  /\ p_pc = "done"
  /\ ~ComparisonTerm(p_msg)
  /\ FoundCI(p_msg, TermHistory)
  /\ p_out.type = Lit("range")
  /\ p_out.start_date = Str(Date1231)
  /\ p_out.end_date = Str(Date0930)
  /\ p_out.address = Str(Address32)

\* The first run of base58 characters that is 32 to 44 long as it stands.
FirstAddressRun(s) ==
  CHOOSE r \in AddressRuns(s) : \A q \in AddressRuns(s) : r[1] <= q[1]

\* C20: the address the parser extracts is the first maximal run of base58
\* characters whose length is 32 to 44, so the characters next to it are not
\* base58 characters; an utterance without such a run (and without a help
\* term) gets the error that asks for a wallet address.
C20_AddressIsMaximalRun ==
  (p_pc = "done" /\ ~HelpPattern(p_msg))
    => IF AddressRuns(p_msg) = {}
         THEN p_out = errorIntent(MsgNeedAddress)
         ELSE /\ p_out.type \in {Lit("snapshot"), Lit("range"), Lit("comparison"),
                                 Lit("error")}
              /\ p_out.type # Lit("error")
                   => p_out.address
                        = Str(Piece(p_msg, FirstAddressRun(p_msg)[1],
                                    FirstAddressRun(p_msg)[2]))
              /\ p_out.type = Lit("error") => p_out = errorIntent(MsgNeedDate)
\* ------------------------------------------- claims on the request handler

\* The request held an utterance, so parseUserQuery was called with it.
IsText(x) == x.t = "str" /\ x.v # <<>>
Called == body # None /\ body.json /\ IsText(body.message)
\* parseUserQuery has returned (or the request has ended).
Parsed == Called /\ pc \in {"dispatch", "exec", "done"}
NLEnded == nl # None
Utterance == body.message.v

\* The reply holds a first block of text that is one JSON value, white space
\* around it allowed; that value.
HasJsonReply ==
  /\ NLEnded
  /\ nl.kind = "message"
  /\ nl.content # <<>>
  /\ nl.content[1].type = "text"
  /\ \E i \in 1..Len(nl.content[1].text) :
        /\ nl.content[1].text[i].tok = "json"
        /\ \A j \in 1..Len(nl.content[1].text) :
              j # i => nl.content[1].text[j] = WS
ReplyValue ==
  LET text == nl.content[1].text
  IN  text[CHOOSE i \in 1..Len(text) : text[i].tok = "json"].value

\* The causes of fallback C1 names: no credential, a transport failure, a
\* reply that is not JSON.
MissingCredential == Called /\ ~env.ANTHROPIC_API_KEY
TransportFailure == NLEnded /\ nl.kind = "reject"
ReplyNotJson == NLEnded /\ nl.kind = "message" /\ ~HasJsonReply

Count(seq, x) == Cardinality({i \in 1..Len(seq) : seq[i] = x})

\* C1: with the credential missing, the NL call failing in transport or its
\* reply not parsing as JSON, parseUserQuery throws nothing and returns what
\* regexParse returns for the utterance, and the response carries nothing of
\* the failure: the request goes on as regexParse's intent directs, to a
\* normal response or to the execution of that intent's query.
C1_FallsBackSilently ==
  /\ (Parsed /\ (MissingCredential \/ TransportFailure \/ ReplyNotJson))
       => /\ via = "regex"
          /\ parsed = regexParse(Utterance)
  /\ (pc = "done" /\ Called /\ (MissingCredential \/ TransportFailure \/ ReplyNotJson))
       => IF sent = <<>>
            THEN /\ response.status = 200
                 /\ response = route(regexParse(Utterance)).response
            ELSE sent = <<route(regexParse(Utterance)).sql.value>>

C1_Witness ==
  /\ pc = "done"
  /\ TransportFailure
  /\ via = "regex"
  /\ parsed.type = Lit("comparison")
  /\ response.status = 200
  /\ response.query_type = Lit("comparison")

\* The QueryIntent union: an object of one of the five kinds holding the
\* fields of its kind as non-empty strings, protocol and message optional.
OptionalText(x) == x = Undefined \/ x.t = "str"
Conforms(v) ==
  /\ IsObject(v)
  /\ \/ v.type \in {Lit("help"), Lit("error")} /\ OptionalText(v.message)
     \/ /\ v.type = Lit("snapshot")
        /\ IsText(v.address) /\ IsText(v.date) /\ OptionalText(v.protocol)
     \/ /\ v.type = Lit("range")
        /\ IsText(v.address) /\ IsText(v.start_date) /\ IsText(v.end_date)
        /\ OptionalText(v.protocol)
     \/ /\ v.type = Lit("comparison")
        /\ IsText(v.address) /\ IsText(v.date1) /\ IsText(v.date2)
        /\ OptionalText(v.protocol)

\* C2: a reply that is JSON but not one object conforming to the QueryIntent
\* union is a parse failure: parseUserQuery returns regexParse's result for
\* the utterance, never the deviating value.
C2_DeviationFallsBack ==
  (Parsed /\ HasJsonReply /\ ~Conforms(ReplyValue))
    => /\ via = "regex"
       /\ parsed = regexParse(Utterance)

DataKinds == {Lit("snapshot"), Lit("range"), Lit("comparison")}
\* A field that is present and not empty.
Present(x) == x \notin {Undefined, Null, Str(<<>>)}
\* The fields the kind of an intent requires are all present.
Complete(q) ==
  /\ Present(q.address)
  /\ q.type = Lit("snapshot") => Present(q.date)
  /\ q.type = Lit("range") => Present(q.start_date) /\ Present(q.end_date)
  /\ q.type = Lit("comparison") => Present(q.date1) /\ Present(q.date2)

\* C3: a compiler is called only with the address and every date of the
\* intent's kind present and non-empty, whichever parser produced the intent;
\* otherwise the response is a normal one of query_type "error", no query is
\* built and no query execution is called.
C3_CompilerGetsCompleteIntents ==
  /\ \A i \in 1..Len(built) :
        /\ IsObject(parsed) /\ parsed.type \in DataKinds /\ Complete(parsed)
        /\ built[i].address = parsed.address
        /\ Present(built[i].address)
        /\ Present(built[i].first)
        /\ built[i].fn # "buildPositionQuery" => Present(built[i].second)
        /\ built[i].fn = "buildPositionQuery" <=> parsed.type = Lit("snapshot")
        /\ built[i].fn = "buildPositionRangeQuery" <=> parsed.type = Lit("range")
        /\ built[i].fn = "buildComparisonQuery" <=> parsed.type = Lit("comparison")
  /\ (/\ pc = "done"
      /\ via # "none"
      /\ IsObject(parsed)
      /\ parsed.type \in DataKinds
      /\ ~Complete(parsed))
       => /\ response.status = 200
          /\ response.query_type = Lit("error")
          /\ response.sql = Undefined
          /\ built = <<>>
          /\ sql = Undefined
          /\ sent = <<>>
          /\ Count(events, "allium:start") = 0

C3_Witness ==
  /\ pc = "done"
  /\ via = "nl"
  /\ IsObject(parsed)
  /\ parsed.type = Lit("range")
  /\ Present(parsed.address)
  /\ Present(parsed.start_date)
  /\ ~Present(parsed.end_date)
  /\ response = guidance(MsgRangeNeeds)
  /\ built = <<>>

\* C4: once an utterance has gone to the parser, a failure status comes only
\* from a failed query execution: if queryAllium was not called, or returned
\* a row set, the response is a normal one with a query_type and a message,
\* whatever the NL service did.
C4_OnlyExecutionFailureElevates ==
  (pc = "done" /\ Called /\ qaError = None /\ data # Undefined)
    => /\ response.status = 200
       /\ Truthy(response.query_type)
       /\ Truthy(response.response)

\* C5: queryAllium is called at most once in a request; when it throws, no
\* further external call is made and the response has a failure status,
\* query_type "error", a message holding the thrown error's message, no
\* report and no compiled query.
C5_ExecutionFailurePropagates ==
  /\ Len(sent) <= 1
  /\ Count(events, "allium:start") <= 1
  /\ qaError # None
       => /\ pc = "done"
          /\ Len(sent) = 1
          /\ events = <<>> \/ events[Len(events)] \in {"nl:end", "allium:end"}
          /\ response.status = 500
          /\ response.query_type = Lit("error")
          /\ includes(response.response.v, qaError.message)
          /\ response.sql = Undefined
          /\ report = None

C5_Witness ==
  /\ pc = "done"
  /\ qaError # None
  /\ qaError.message = <<"Allium query error: ", "relation does not exist">>
  /\ events = <<"nl:start", "nl:end", "allium:start", "allium:end">>
  /\ response.status = 500

\* C6: the NL call has ended before query execution is started; a request
\* makes at most two external calls; a help or error intent ends the request
\* with no query compiled or executed; the response carries the query text
\* exactly when the intent is a snapshot, range or comparison whose query was
\* compiled, executed and formatted without a throw, and then it is the text
\* that was sent to query execution.
C6_ControlFlow ==
  /\ \A j \in 1..Len(events) :
        events[j] = "allium:start"
          => /\ Count(SubSeq(events, 1, j), "nl:start")
                = Count(SubSeq(events, 1, j), "nl:end")
             /\ \A k \in j..Len(events) : events[k] \notin {"nl:start", "nl:end"}
  /\ Count(events, "nl:start") + Count(events, "allium:start") <= 2
  /\ (pc = "done" /\ IsObject(parsed) /\ parsed.type \in {Lit("help"), Lit("error")})
       => /\ built = <<>>
          /\ sent = <<>>
          /\ Count(events, "allium:start") = 0
          /\ response.query_type = parsed.type
  /\ pc = "done"
       => /\ response.sql # Undefined
             <=> /\ IsObject(parsed)
                 /\ parsed.type \in DataKinds
                 /\ Len(built) = 1
                 /\ Len(sent) = 1
                 /\ Count(events, "allium:end") = 1
                 /\ qaError = None
                 /\ report # None
          /\ response.sql # Undefined
               => /\ response.sql = Str(sent[1])
                  /\ response.response = report
                  /\ response.query_type = parsed.type

C6_Witness ==
  /\ pc = "done"
  /\ response.sql # Undefined
  /\ parsed.type = Lit("range")
  /\ events = <<"nl:start", "nl:end", "allium:start", "allium:end">>
  /\ response.sql = Str(sent[1])

\* ------------------------------------------------ claims on the compiler

\* q ends with the pieces of tailClause; column op 'v' as a condition.
EndsWith(q, tailClause) ==
  /\ Len(q) >= Len(tailClause)
  /\ SubSeq(q, Len(q) - Len(tailClause) + 1, Len(q)) = tailClause
Condition(column, op, v) == <<column \o op \o "'">> \o v \o <<"'">>
\* A filter of the query: the text between WHERE and ORDER BY holds it.
Filters(q, condition) == includes(q, condition)
\* No letter of s is upper case.
IsLowerCase(s) == \A i \in 1..Len(s) : \A k \in 1..26 : s[i] # UpperAlpha[k]

\* The shape of the query compiled for the compiler call c.
ShapeOf(c, q) ==
  /\ Filters(q, <<"balance > 0">>)
  /\ Filters(q, Condition("address", " = ", c.address.v))
  /\ c.fn = "buildPositionQuery"
       => /\ Filters(q, Condition("date", " = ", c.first.v))
          /\ EndsWith(q, <<" ORDER BY usd_balance DESC", " LIMIT 50">>)
  /\ c.fn = "buildPositionRangeQuery"
       => /\ Filters(q, Condition("date", " >= ", c.first.v))
          /\ Filters(q, Condition("date", " <= ", c.second.v))
          /\ EndsWith(q, <<" ORDER BY date ASC, usd_balance DESC", " LIMIT 500">>)
  /\ c.fn = "buildComparisonQuery"
       => /\ Filters(q, <<"date IN ('">> \o c.first.v \o <<"', '">> \o c.second.v \o <<"')">>)
          /\ EndsWith(q, <<" ORDER BY date ASC, usd_balance DESC", " LIMIT 100">>)
  /\ Count(q, " AND ") = (IF c.fn = "buildPositionRangeQuery" THEN 3 ELSE 2)
                         + (IF Truthy(c.protocol) THEN 1 ELSE 0)
  /\ Count(q, "project = '") = (IF Truthy(c.protocol) THEN 1 ELSE 0)
  /\ Truthy(c.protocol)
       => \E i \in 1..Len(q) :
             /\ q[i] = "project = '"
             /\ SubSeq(q, i + 1, i + Len(c.protocol.v) + 1)
                  = toLowerCase(c.protocol.v) \o <<"'">>
             /\ IsLowerCase(SubSeq(q, i + 1, i + Len(c.protocol.v)))

\* The query the same compiler call gives for the protocol in lower case.
LowerCased(c) ==
  LET p == Str(toLowerCase(c.protocol.v))
  IN  CASE c.fn = "buildPositionQuery" -> buildPositionQuery(c.address, c.first, p)
        [] c.fn = "buildPositionRangeQuery" ->
             buildPositionRangeQuery(c.address, c.first, c.second, p)
        [] OTHER -> buildComparisonQuery(c.address, c.first, c.second, p)

\* C12: every query the compiler returns filters balance > 0 and the address
\* by equality; a snapshot filters date = the date, orders by usd_balance
\* descending, LIMIT 50; a range filters date >= start and date <= end, orders
\* by date ascending then usd_balance descending, LIMIT 500; a comparison
\* filters date IN (date1, date2), same order, LIMIT 100; a project filter is
\* there exactly when a protocol was given, with the protocol in lower case,
\* so the query is the one compiled for the lower-cased protocol.
C12_CompiledShape ==
  sent # <<>>
    => /\ Len(sent) = 1 /\ Len(built) = 1
       /\ ShapeOf(built[1], sent[1])
       /\ Truthy(built[1].protocol)
            => sent[1] = LowerCased(built[1]).value

C12_Witness ==
  /\ sent # <<>>
  /\ built[1].fn = "buildComparisonQuery"
  /\ built[1].protocol = Str(Kamino)
  /\ toLowerCase(Kamino) # Kamino
  /\ via = "nl"

\* ---------------------------------------------- claims on the formatters

\* The pieces of seq between the pieces equal to sep.
RECURSIVE Split(_, _)
Split(seq, sep) ==
  LET at == {i \in 1..Len(seq) : seq[i] = sep}
  IN  IF at = {} THEN <<seq>>
      ELSE <<SubSeq(seq, 1, Min(at) - 1)>> \o Split(SubSeq(seq, Min(at) + 1, Len(seq)), sep)

\* The lines of a report, the lines of its tables, and the cells of a line.
Lines(text) == Split(text, "\n")
IsTableLine(line) == line # <<>> /\ line[1] = "|"
TableLines(text) == SelectSeq(Lines(text), IsTableLine)
Cells(line) ==
  LET parts == Split(SubSeq(line, 2, Len(line) - 1), "|")
  IN  [i \in 1..Len(parts) |-> SubSeq(parts[i], 2, Len(parts[i]) - 1)]
\* The text after the first piece equal to label, up to the end of the line.
After(text, label) ==
  LET i == Min({k \in 1..Len(text) : text[k] = label})
      rest == SubSeq(text, i + 1, Len(text))
  IN  Lines(rest)[1]

\* The sum of usd_balance over the rows with index in I.
RECURSIVE TotalOver(_, _)
TotalOver(rows, I) ==
  IF I = {} THEN 0
  ELSE LET i == CHOOSE k \in I : TRUE
       IN  rows[i].usd_balance + TotalOver(rows, I \ {i})

Formatted(kind) == pc = "formatted" /\ parsed.type = Lit(kind)

\* C13: for an empty row set each formatter returns its fixed sentence, the
\* same for any date1 and date2: a text that is not empty and has no line
\* starting with a pipe.
C13_EmptyRowsGiveSentence ==
  (pc = "formatted" /\ data.v = <<>>)
    => /\ report.v = (CASE parsed.type = Lit("snapshot") -> NoPositions
                        [] parsed.type = Lit("range") -> NoRange
                        [] OTHER -> NoComparison)
       /\ report.v # <<>>
       /\ \A i \in 1..Len(report.v) : report.v[i] \notin {"", "\n"}
       /\ \A i \in 1..Len(Lines(report.v)) : ~IsTableLine(Lines(report.v)[i])

C13_Witness ==
  /\ Formatted("comparison")
  /\ data.v = <<>>
  /\ parsed.date2 = Str(Date1001)
  /\ report.v = NoComparison

\* C14: for a non-empty row set the snapshot report has, under the header
\* and the rule, one table line per row in the order of the rows, showing the
\* row's symbol, balance and USD value, and its total is the sum of
\* usd_balance over all the rows, rows of one symbol included.
C14_SnapshotRowsAndTotal ==
  (Formatted("snapshot") /\ data.v # <<>>)
    => LET rows  == data.v
           lines == TableLines(report.v)
       IN  /\ Len(lines) = Len(rows) + 2
           /\ \A i \in 1..Len(rows) :
                 /\ Cells(lines[i + 2])[1] = <<rows[i].symbol>>
                 /\ Cells(lines[i + 2])[3] = formatBalance(rows[i].balance)
                 /\ Cells(lines[i + 2])[4] = formatUSD(rows[i].usd_balance)
           /\ After(report.v, "**Total Portfolio Value: ")
                = formatUSD(TotalOver(rows, 1..Len(rows))) \o <<"**">>

\* Two rows of one symbol on one date, and a third row.
C14_Witness ==
  /\ Formatted("snapshot")
  /\ Len(data.v) = 3
  /\ data.v[1].symbol = data.v[2].symbol
  /\ data.v[1].date = data.v[2].date
  /\ data.v[1].usd_balance = 500
  /\ data.v[2].usd_balance = 125
  /\ data.v[3].usd_balance = 40
  /\ After(report.v, "**Total Portfolio Value: ") = formatUSD(665) \o <<"**">>

\* The day of a row: the date without a time of day.
Day(row) == SubSeq(row.date, 1, DateLen)
Days(rows) == {Day(rows[i]) : i \in 1..Len(rows)}
Symbols(rows) == {rows[i].symbol : i \in 1..Len(rows)}
\* The rows of a day, and of a day and a symbol, by index.
RowsOn(rows, day) == {i \in 1..Len(rows) : Day(rows[i]) = day}
RowsOf(rows, day, symbol) == {i \in RowsOn(rows, day) : rows[i].symbol = symbol}

\* The lines from line i on, as long as they are table lines.
RECURSIVE TableFrom(_, _)
TableFrom(lines, i) ==
  IF i > Len(lines) \/ ~IsTableLine(lines[i]) THEN <<>>
  ELSE <<lines[i]>> \o TableFrom(lines, i + 1)
\* The headings of a symbol's table in a range report, by line number, and
\* the lines of the table under the first of them, header and rule left out.
Headings(text, symbol) ==
  {i \in 1..Len(Lines(text)) : Lines(text)[i] = <<"#### ", symbol>>}
Series(text, symbol) ==
  LET table == TableFrom(Lines(text), Min(Headings(text, symbol)) + 2)
  IN  SubSeq(table, 3, Len(table))

\* C15: in the range report every symbol of the rows has one table; the table
\* has a line for a date exactly when the rows hold a row of that date and
\* symbol, the line shows the values of such a row (nothing is filled in for
\* a date the symbol lacks), and the lines stand in ascending order of date.
C15_SeriesHasOnlyReturnedDates ==
  (Formatted("range") /\ data.v # <<>>)
    => \A symbol \in Symbols(data.v) :
          /\ Cardinality(Headings(report.v, symbol)) = 1
          /\ LET rows   == data.v
                 series == Series(report.v, symbol)
             IN  /\ \A day \in Days(rows) :
                       (\E i \in 1..Len(series) : Cells(series[i])[1] = day)
                         <=> RowsOf(rows, day, symbol) # {}
                 /\ \A i \in 1..Len(series) :
                       \E k \in RowsOf(rows, Cells(series[i])[1], symbol) :
                          /\ Cells(series[i])[2] = formatBalance(rows[k].balance)
                          /\ Cells(series[i])[3] = formatUSD(rows[k].usd_balance)
                 /\ \A i, j \in 1..Len(series) :
                       i < j => DateBefore(Cells(series[i])[1], Cells(series[j])[1])

\* Three dates, the latest first, one symbol lacking on the middle date.
C15_Witness ==
  /\ Formatted("range")
  /\ Len(data.v) = 3
  /\ Day(data.v[1]) = Date1231 /\ data.v[1].symbol = "SOL"
  /\ Day(data.v[2]) = Date1001 /\ data.v[2].symbol = "USDC"
  /\ Day(data.v[3]) = Date0930 /\ data.v[3].symbol = "SOL"
  /\ Len(Series(report.v, "SOL")) = 2
  /\ Cells(Series(report.v, "SOL")[1])[1] = Date0930
  /\ Cells(Series(report.v, "SOL")[2])[1] = Date1231
  /\ Len(Series(report.v, "USDC")) = 1

\* The earliest and the latest day of the rows.
Earliest(rows) == CHOOSE d \in Days(rows) : \A e \in Days(rows) \ {d} : DateBefore(d, e)
Latest(rows) == CHOOSE d \in Days(rows) : \A e \in Days(rows) \ {d} : DateBefore(e, d)

\* C16: the period summary of the range report gives as start value the sum
\* of usd_balance over the rows of the earliest day, as end value the sum
\* over the rows of the latest day, as change the end less the start, and as
\* percentage N/A when the start is zero, else the change as a percentage of
\* the start to two decimals; the order of the rows plays no part.
C16_PeriodSummary ==
  (Formatted("range") /\ data.v # <<>>)
    => LET rows       == data.v
           startTotal == TotalOver(rows, RowsOn(rows, Earliest(rows)))
           endTotal   == TotalOver(rows, RowsOn(rows, Latest(rows)))
       IN  /\ After(report.v, "- Start value (")
                = Earliest(rows) \o <<"): ">> \o formatUSD(startTotal)
           /\ After(report.v, "- End value (")
                = Latest(rows) \o <<"): ">> \o formatUSD(endTotal)
           /\ After(report.v, "- Change: ")
                = formatUSD(endTotal - startTotal) \o <<" (">>
                  \o (IF startTotal = 0 THEN <<"N/A">>
                      ELSE percentFixed(endTotal - startTotal, startTotal))
                  \o <<"%)">>

\* The latest day first, two rows on it, and a start worth nothing.
C16_Witness ==
  /\ Formatted("range")
  /\ Len(data.v) = 3
  /\ Day(data.v[1]) = Date1231 /\ data.v[1].usd_balance = 500
  /\ Day(data.v[2]) = Date0930 /\ data.v[2].usd_balance = 0
  /\ Day(data.v[3]) = Date1231 /\ data.v[3].usd_balance = 40
  /\ After(report.v, "- Start value (") = Date0930 \o <<"): ">> \o formatUSD(0)
  /\ After(report.v, "- End value (") = Date1231 \o <<"): ">> \o formatUSD(540)
  /\ After(report.v, "- Change: ") = formatUSD(540) \o <<" (", "N/A", "%)">>

\* The rows of the day a date argument names, by index; their symbols.
RowsAt(rows, date) == {i \in 1..Len(rows) : Str(Day(rows[i])) = date}
SymbolsAt(rows, date) == {rows[i].symbol : i \in RowsAt(rows, date)}
\* The lines of the comparison table, header and rule left out.
ComparisonLines(text) == SubSeq(TableLines(text), 3, Len(TableLines(text)))
\* The balance and USD cells of one side of a line show a row of the symbol
\* on that date, or zero for both when there is none.
SideShows(rows, date, symbol, balanceCell, usdCell) ==
  LET of == {i \in RowsAt(rows, date) : rows[i].symbol = symbol}
  IN  IF of = {}
        THEN balanceCell = formatBalance(0) /\ usdCell = formatUSD(0)
        ELSE \E i \in of : /\ balanceCell = formatBalance(rows[i].balance)
                           /\ usdCell = formatUSD(rows[i].usd_balance)
\* The rows of the days the two date arguments name, in input order.
OfTheTwoDays(rows, date1, date2) ==
  SelectSeq(rows, LAMBDA r : Str(Day(r)) \in {date1, date2})

\* C17: the comparison table has one line for each symbol that a row of
\* date1 or a row of date2 has, and no other line; a side on which the symbol
\* has no row shows balance 0 and USD 0; rows of any other date change
\* nothing: the report is the report of the rows of the two dates alone.
C17_ComparisonShowsUnion ==
  (Formatted("comparison") /\ data.v # <<>>)
    => LET rows  == data.v
           lines == ComparisonLines(report.v)
           both  == SymbolsAt(rows, parsed.date1) \cup SymbolsAt(rows, parsed.date2)
           kept  == OfTheTwoDays(rows, parsed.date1, parsed.date2)
       IN  /\ {Cells(lines[i])[1] : i \in 1..Len(lines)} = {<<symbol>> : symbol \in both}
           /\ Len(lines) = Cardinality(both)
           /\ \A i \in 1..Len(lines) :
                 LET cells == Cells(lines[i])
                 IN  /\ SideShows(rows, parsed.date1, cells[1][1], cells[2], cells[3])
                     /\ SideShows(rows, parsed.date2, cells[1][1], cells[4], cells[5])
           /\ kept # <<>>
                => report.v = formatComparisonTable(kept, parsed.date1, parsed.date2)

\* A row of a third date, a symbol on date1 only and a symbol on date2 only.
C17_Witness ==
  /\ Formatted("comparison")
  /\ parsed.date1 = Str(Date0930) /\ parsed.date2 = Str(Date1231)
  /\ Len(data.v) = 3
  /\ Day(data.v[1]) = Date1001 /\ data.v[1].usd_balance = 175
  /\ Day(data.v[2]) = Date0930 /\ data.v[2].symbol = "SOL"
  /\ Day(data.v[3]) = Date1231 /\ data.v[3].symbol = "USDC"
  /\ Len(ComparisonLines(report.v)) = 2
  /\ Cells(ComparisonLines(report.v)[1])[4] = formatBalance(0)
  /\ Cells(ComparisonLines(report.v)[2])[3] = formatUSD(0)

\* text is change as a percentage of base (base > 0), to two decimals: of the
\* two hundredths around the quotient, the nearer one.
IsPercentOf(text, change, base) ==
  \E m \in {(Abs(change) * 10000) \div base, (Abs(change) * 10000) \div base + 1} :
     /\ 2 * Abs(m * base - Abs(change) * 10000) <= base
     /\ text = (IF change < 0 THEN <<"-">> ELSE <<>>)
               \o DecimalDigits(m \div 100) \o <<".">> \o LastDigits(m, 2) \o <<"%">>
\* The first row of a symbol on the day a date argument names.
FirstAt(rows, date, symbol) ==
  rows[Min({i \in RowsAt(rows, date) : rows[i].symbol = symbol})]

\* C18: in the comparison table a symbol with a row on both dates has as
\* % Change (usd2 - usd1) / usd1 * 100 to two decimals, and N/A when usd1 is
\* zero, whatever usd2; the percentage of the total is N/A when the rows of
\* date1 are worth nothing in total, and exactly when the total shown for
\* date1 is zero.
C18_PercentChange ==
  (Formatted("comparison") /\ data.v # <<>>)
    => LET rows  == data.v
           lines == ComparisonLines(report.v)
       IN  /\ \A i \in 1..Len(lines) :
                 LET symbol == Cells(lines[i])[1][1]
                 IN  (/\ symbol \in SymbolsAt(rows, parsed.date1)
                      /\ symbol \in SymbolsAt(rows, parsed.date2))
                       => LET usd1 == FirstAt(rows, parsed.date1, symbol).usd_balance
                              usd2 == FirstAt(rows, parsed.date2, symbol).usd_balance
                          IN  IF usd1 = 0 THEN Cells(lines[i])[7] = <<"N/A">>
                              ELSE IsPercentOf(Cells(lines[i])[7], usd2 - usd1, usd1)
           /\ TotalOver(rows, RowsAt(rows, parsed.date1)) = 0
                => EndsWith(After(report.v, "- Change: "), <<" (", "N/A", ")">>)
           /\ After(report.v, "- ") = parsed.date1.v \o <<": ">> \o formatUSD(0)
                <=> EndsWith(After(report.v, "- Change: "), <<" (", "N/A", ")">>)

\* A symbol worth nothing on date1 and something on date2.
C18_Witness ==
  /\ Formatted("comparison")
  /\ parsed.date1 = Str(Date0930) /\ parsed.date2 = Str(Date1231)
  /\ Len(data.v) = 2
  /\ Day(data.v[1]) = Date0930 /\ data.v[1].usd_balance = 0
  /\ Day(data.v[2]) = Date1231 /\ data.v[2].usd_balance = 500
  /\ data.v[1].symbol = data.v[2].symbol
  /\ Cells(ComparisonLines(report.v)[1])[7] = <<"N/A">>
  /\ After(report.v, "- Change: ") = formatUSD(500) \o <<" (", "N/A", ")">>

\* The heading of a report: its first line.
Heading(text) == Lines(text)[1]
\* The first and the last four characters of an address (fewer if it is
\* shorter) joined by an ellipsis.
Shortened(address) ==
  LET n == IF Len(address) < 4 THEN Len(address) ELSE 4
  IN  SubSeq(address, 1, n) \o <<"...">>
      \o SubSeq(address, Len(address) - n + 1, Len(address))

\* C19: for a non-empty row set the heading of the snapshot, range and
\* comparison report shows the address of the rows shortened to its first
\* four and last four characters joined by an ellipsis, and the full address
\* does not occur in the heading, whatever the length of the address.
C19_HeadingHidesAddress ==
  (pc = "formatted" /\ data.v # <<>>)
    => /\ includes(Heading(report.v), <<Tick>> \o Shortened(data.v[1].address) \o <<Tick>>)
       /\ ~includes(Heading(report.v), data.v[1].address)

\* The line of the comparison report that gives the total of a date.
TotalLine(date, total) == <<"- ">> \o date.v \o <<": ">> \o formatUSD(total)
HasLine(text, line) == \E i \in 1..Len(Lines(text)) : Lines(text)[i] = line

\* C21: the total the comparison report gives for date1, and for date2, is
\* the sum of usd_balance over all the rows of that date, the total the
\* snapshot report gives for those rows, also when a symbol has more than
\* one row on the date.
C21_ComparisonTotalsSumAllRows ==
  (Formatted("comparison") /\ data.v # <<>>)
    => /\ HasLine(report.v,
                  TotalLine(parsed.date1,
                            TotalOver(data.v, RowsAt(data.v, parsed.date1))))
       /\ HasLine(report.v,
                  TotalLine(parsed.date2,
                            TotalOver(data.v, RowsAt(data.v, parsed.date2))))
       /\ \A date \in {parsed.date1, parsed.date2} :
             onDate(data.v, date) # <<>>
               => After(formatPositionTable(onDate(data.v, date)),
                        "**Total Portfolio Value: ")
                    = formatUSD(TotalOver(data.v, RowsAt(data.v, date))) \o <<"**">>

\* ------------------------------------- claims on what reaches the query

\* A text of 32 to 44 base58 characters; a text of the form dddd-dd-dd.
IsAddressText(v) ==
  /\ Len(v) \in MinAddrLen..MaxAddrLen
  /\ \A i \in 1..Len(v) : v[i] \in Base58
IsDateText(v) ==
  /\ Len(v) = DateLen
  /\ \A i \in 1..DateLen : IF i \in {5, 8} THEN v[i] = "-" ELSE v[i] \in Digits
\* The closing quotes the compiler writes as pieces of their own: after the
\* address and after each date of a snapshot or range (the dates of a
\* comparison close inside the pieces "', '" and "')").
ClosingQuotes(fn) ==
  CASE fn = "buildPositionQuery" -> 2
    [] fn = "buildPositionRangeQuery" -> 3
    [] OTHER -> 1

\* C22: when the deterministic parser produced the intent, the address put
\* into the query is 32 to 44 base58 characters, every date has the form
\* dddd-dd-dd and there is no protocol, so the query holds no quote but the
\* ones the compiler writes; an intent of the NL service is put into the query
\* as it is given, whatever its address holds, once it is complete.
C22_OnlyRegexIntentsAreConfined ==
  /\ (via = "regex" /\ built # <<>>)
       => LET c == built[1]
          IN  /\ c.address.t = "str" /\ IsAddressText(c.address.v)
              /\ c.first.t = "str" /\ IsDateText(c.first.v)
              /\ c.fn # "buildPositionQuery"
                   => c.second.t = "str" /\ IsDateText(c.second.v)
              /\ c.protocol = Undefined
              /\ Len(sent) = 1
              /\ Count(sent[1], "'") = ClosingQuotes(c.fn)
  /\ (/\ via = "nl"
      /\ pc \in {"exec", "done"}
      /\ IsObject(parsed)
      /\ parsed.type \in DataKinds
      /\ Complete(parsed)
      /\ Truthy(parsed.protocol) => parsed.protocol.t = "str")
       => /\ Len(sent) = 1
          /\ includes(sent[1], <<"address = '">> \o parsed.address.v \o <<"'">>)

\* An NL intent whose address closes the quote, in the query that was sent.
C22_Witness ==
  /\ via = "nl"
  /\ Len(sent) = 1
  /\ built[1].address = Str(QuotingAddress)
  /\ ~IsAddressText(built[1].address.v)
  /\ Count(sent[1], "'") > ClosingQuotes(built[1].fn)
  /\ includes(sent[1], <<"address = '">> \o QuotingAddress \o <<"'">>)

\* ------------------------------------------------------ claims on the page

\* The replies a settled call can append: what the body held, or the fixed
\* connection-failure message.
Replies == {AssistantMessage(res) : res \in ServerBodies \ {NotJson}} \cup {FailedToConnect}

\* The list is the welcome, then pairs of a user message and its reply, then
\* the user message of the call in flight when there is one.
Paired ==
  /\ messages[1] = Welcome
  /\ \A i \in 2..Len(messages) :
       IF i % 2 = 0
         THEN /\ messages[i].role = "user"
              /\ messages[i].content.t = "str"
              /\ messages[i].content.v # <<>>
              /\ StringTrim(messages[i].content.v) = messages[i].content.v
         ELSE messages[i] \in Replies
  /\ Len(messages) % 2 = (IF inFlight = <<>> THEN 1 ELSE 0)
  /\ inFlight # <<>> => messages[Len(messages)] = UserMessage(inFlight[1].message)

\* What one step of the page may do to the list and to the calls in flight.
PageStep ==
  /\ \/ messages' = messages
     \/ \E m \in Replies \cup {UserMessage(StringTrim(input))} : messages' = Append(messages, m)
  /\ Len(inFlight') > Len(inFlight)
       => /\ ~isLoading
          /\ StringTrim(input) # <<>>
          /\ isLoading'
          /\ Len(inFlight') = Len(inFlight) + 1
          /\ messages' = Append(messages, UserMessage(StringTrim(input)))
  /\ Len(inFlight') < Len(inFlight)
       => /\ ~isLoading'
          /\ \E m \in Replies : messages' = Append(messages, m)
  /\ Len(inFlight') = Len(inFlight) => messages' = messages

\* C23: on the chat page, whatever the order of send attempts and of
\* completions, a request is issued only when isLoading is false and the
\* trimmed input is not empty, so that at most one is in flight, and isLoading
\* is true exactly while one is; every request issued is followed by isLoading
\* being false again, whether it succeeded or failed; the list of messages
\* changes only by one message being appended, and every accepted send puts
\* one user message and then one assistant message on it, the reply or the
\* fixed connection-failure message.
C23_OneRequestOneReply ==
  /\ [](Len(inFlight) <= 1 /\ (isLoading <=> inFlight # <<>>) /\ Paired)
  /\ [][PageStep]_vars
  /\ (inFlight # <<>>) ~> (inFlight = <<>> /\ ~isLoading)

\* A third request in flight, after one that failed and one that was answered
\* with a body that has no response.
C23_Witness ==
  /\ Len(messages) = 6
  /\ messages[3] = FailedToConnect
  /\ messages[5] = AssistantMessage(badRequest)
  /\ messages[5].content = Undefined
  /\ messages[6].role = "user"
  /\ isLoading
  /\ Len(inFlight) = 1
  /\ inFlight[1].at = "json"
====
